---- MODULE Spec2Model ----
(***************************************************************************)
(* SERCA pump Markov-chain Monte Carlo simulator and its particle swarm    *)
(* optimizer (k1mccabe/SERCA_MCMC).                                         *)
(*                                                                         *)
(* The parts of the program are modelled each with its own                *)
(* specification over the shared variables:                                *)
(*   SpecSM   - the state-transition step (update_States of the 13-state   *)
(*              and of the 16-state model, and lastRun's inline engine);   *)
(*   SpecSim  - the ensemble loop of get_Residual (molecules, timesteps,   *)
(*              time-binned histograms) over the concentration grid;       *)
(*   SpecRes  - max-normalisation of the raw curve and the residual;       *)
(*   SpecOcc  - the weighted sums of the steady-state occupancies;         *)
(*   SpecPSO  - the serial swarm optimizer and one rank of the MPI one;    *)
(*   SpecPart - the split of the particles over the MPI processes;         *)
(*   SpecWin  - the sampling steps of one molecule and the trailing window *)
(*              of the averaging loop, for a range of timestep counts;     *)
(*   SpecGrid - the accesses to the concentration grid and the reference   *)
(*              curve, for a range of condition counts;                    *)
(*   SpecProb - the state-transition step with the rates, concentrations   *)
(*              and time step of main, in fixed point;                     *)
(*   SpecSeed - the calls of srand and rand over a program run.            *)
(*                                                                         *)
(* Floating point quantities are modelled by integers in fixed units:      *)
(* a probability is a multiple of 1/RandMax, a rate, a concentration and   *)
(* dt are small positive integers, and quotients are exact rationals       *)
(* <<numerator, denominator>>.  NaN and the infinities are distinct values.*)
(***************************************************************************)
EXTENDS Integers, Sequences, FiniteSets, TLC

VARIABLES
    \* ---- state-transition engine
    engine,         \* which engine runs: "update_States13", "update_States16", "lastRun"
    state,          \* int state / state_last: the molecule's discrete state
    current_state,  \* int current_state: copy of state taken at the start of the step
    randNum,        \* float randNum: the draw of the step, in units of 1/RandMax
    rates,          \* the rate constants k_Sx_Sy passed by reference
    conc,           \* Ca_cyt_conc, Ca_sr_conc, Pi_conc, MgATP_conc, MgADP_conc
    dt,             \* float dt
    op,             \* the operation that produced the current state of the model
    \* ---- ensemble loop of get_Residual
    pc,             \* position in get_Residual
    cal,            \* int cal: index of the concentration point
    rr,             \* int rr: index of the molecule
    n,              \* int n: index of the timestep
    output_count,   \* int output_count
    hist,           \* float S0[], S1[], ... S11[]: hist[s][b] is the bin b of state s
    ss_bound_Ca,    \* float ss_bound_Ca[n_pCa], in units of 1/(n_SERCA_Molecules * Window)
    boundSS_max_temp, \* float boundSS_max_temp, in the same units
    \* ---- normalisation and residual
    variant,        \* which evaluator runs: "get_Residual", "get_Residual_Pi",
                    \* "get_Residual_4" (src/unnamed/part_000), "lastRun"
    norm_ss_bound,  \* float norm_ss_bound_Ca[] / norm_ss_bound_Pi[] / norm_ss_bound_Ca2[]
    residual,       \* float residual / residual_pi, stored as its square (residual_temp)
    \* ---- particle swarm (the serial main and one rank of the MPI main)
    main,           \* which main runs: "serial" or "mpi"
    id,             \* int id: the rank of the process
    nproc,          \* int p: the number of processes
    X,              \* float X_k_*_PSO[]: the positions (one coordinate per particle)
    X_local,        \* double X_k_*_PSO_local[] (MPI main)
    V,              \* float V_k_*_PSO[]: the velocities
    residual_cost_func, \* float residual_cost_func[]
    Res_pbest,      \* float Res_pbest[]
    X_pbest,        \* float k_*_pbest[]
    Res_gbest,      \* float Res_gbest
    X_gbest,        \* float k_*_gbest
    i_best,         \* int i_Res_gbest
    it,             \* int it: the swarm iteration
    w,              \* float w: the inertia of the iteration
    ip,             \* int i: the particle index of the running loop
    total_gbest,    \* float total_gbest[max_iter] (serial main), with the indices written
    evals,          \* history: evals[i] lists the residuals evaluated for particle i, the
                    \* initial evaluation (by the rank that owns i) first
    \* ---- the split of the particles over the processes of the MPI main
    n_particles,    \* the number of particles that is split
    ranged,         \* the ranks that have computed start and end
    owned,          \* the pairs <<rank, i>> with start <= i < end on that rank
    \* ---- the sampling steps and the trailing window of one molecule
    tsteps,         \* int & max_tsteps: the number of timesteps passed to the evaluator
    written,        \* history: the bins n/save_jump incremented by the molecule, in order
    steps_read,     \* history: the step indices n of the averaging loop, in order
    \* ---- the condition grid and the reference curve
    n_cond,         \* int & n_pCa / n_pPi: the number of conditions passed to the evaluator
    grid_reads,     \* history: the pairs <<array, index>> read from the built-in tables
    \* ---- the random generator
    rand_events     \* history: the calls of srand ("srand") and of rand ("rand"), in order

smVars == <<engine, state, current_state, randNum, rates, conc, dt>>
simVars == <<pc, cal, rr, n, output_count, hist, ss_bound_Ca, boundSS_max_temp>>
resVars == <<variant, norm_ss_bound, residual>>
partVars == <<n_particles, ranged, owned>>
gridVars == <<n_cond, grid_reads>>
seedVars == <<rand_events>>
winVars == <<tsteps, written, steps_read, gridVars, seedVars>>
psoVars == <<main, id, nproc, partVars, X, X_local, V, residual_cost_func, Res_pbest, X_pbest,
             Res_gbest, X_gbest, i_best, it, w, ip, total_gbest, evals>>
vars == <<smVars, op, simVars, resVars, psoVars, winVars>>

----------------------------------------------------------------------------
(* Bounds of the model *)

\* largest rate constant of a rate table (rates are 1..MaxRate)
MaxRate == 2
\* largest concentration (concentrations are 1..MaxConc)
MaxConc == 2
\* the draw rand()/RAND_MAX lies in [0,1]: randNum is 0..RandMax, RandMax stands for 1.0
RandMax == 8

----------------------------------------------------------------------------
(* Floating point values *)

\* A float is a pair <<num, den>>: a reduced fraction when den > 0, and
\* NaN, +Inf, -Inf when den = 0.
NaN == <<0, 0>>
PosInf == <<1, 0>>
NegInf == <<-1, 0>>
Zero == <<0, 1>>
One == <<1, 1>>

Abs(i) == IF i < 0 THEN -i ELSE i

RECURSIVE GCD(_, _)
GCD(a, b) == IF b = 0 THEN a ELSE GCD(b, a % b)

\* the fraction a/b with b > 0, reduced
Frac(a, b) == LET g == GCD(Abs(a), b) IN <<a \div g, b \div g>>

IsFinite(x) == x[2] > 0

\* x / y
FDiv(x, y) ==
    IF x = NaN \/ y = NaN THEN NaN
    ELSE IF ~IsFinite(y) THEN (IF IsFinite(x) THEN Zero ELSE NaN)
    ELSE IF y[1] = 0 THEN
        (IF x[1] = 0 THEN NaN ELSE IF x[1] > 0 THEN PosInf ELSE NegInf)
    ELSE IF ~IsFinite(x) THEN (IF (x[1] > 0) = (y[1] > 0) THEN PosInf ELSE NegInf)
    ELSE IF y[1] > 0 THEN Frac(x[1] * y[2], x[2] * y[1])
    ELSE Frac(-(x[1] * y[2]), x[2] * (-y[1]))

\* x - y
FSub(x, y) ==
    IF x = NaN \/ y = NaN THEN NaN
    ELSE IF ~IsFinite(x) THEN (IF x = y THEN NaN ELSE x)
    ELSE IF ~IsFinite(y) THEN (IF y = PosInf THEN NegInf ELSE PosInf)
    ELSE Frac(x[1] * y[2] - y[1] * x[2], x[2] * y[2])

\* x + y
FAdd(x, y) ==
    IF x = NaN \/ y = NaN THEN NaN
    ELSE IF ~IsFinite(x) THEN (IF ~IsFinite(y) /\ x # y THEN NaN ELSE x)
    ELSE IF ~IsFinite(y) THEN y
    ELSE Frac(x[1] * y[2] + y[1] * x[2], x[2] * y[2])

\* x * y
FMul(x, y) ==
    IF x = NaN \/ y = NaN THEN NaN
    ELSE IF ~IsFinite(x) \/ ~IsFinite(y) THEN
        (IF x[1] = 0 \/ y[1] = 0 THEN NaN
         ELSE IF (x[1] > 0) = (y[1] > 0) THEN PosInf ELSE NegInf)
    ELSE Frac(x[1] * y[1], x[2] * y[2])

\* pow(x, 2)
FSq(x) ==
    IF x = NaN THEN NaN
    ELSE IF ~IsFinite(x) THEN PosInf
    ELSE Frac(x[1] * x[1], x[2] * x[2])

\* x < y and x <= y: false when an operand is NaN
FLt(x, y) ==
    /\ x # NaN /\ y # NaN
    /\ IF IsFinite(x) /\ IsFinite(y) THEN x[1] * y[2] < y[1] * x[2]
       ELSE IF ~IsFinite(x) /\ ~IsFinite(y) THEN x = NegInf /\ y = PosInf
       ELSE x = NegInf \/ y = PosInf

FLeq(x, y) == x # NaN /\ y # NaN /\ (x = y \/ FLt(x, y))

----------------------------------------------------------------------------
(* Rate table and environment *)

RateNames ==
    << "k_S0_S1",   "k_S0_S11",  "k_S0_S1a",
       "k_S1_S2",   "k_S1_S0",   "k_S1_S2a",
       "k_S2_S3",   "k_S2_S1",   "k_S2_S3a",
       "k_S3_S4",   "k_S3_S2",   "k_S4_S3a",
       "k_S4_S5",   "k_S4_S3",   "k_S5_S6",
       "k_S5_S6a",  "k_S5_S4",   "k_S7_S6",
       "k_S6a_S7",  "k_S6a_S5",  "k_S2a_S1",
       "k_S7_S8",   "k_S7_S6a",  "k_S3a_S2",
       "k_S6_S7",   "k_S6_S5",   "k_S5_S8",
       "k_S8_S9",   "k_S8_S7",   "k_S8_S5",
       "k_S9_S10",  "k_S9_S8",   "k_S7_S9",
       "k_S10_S11", "k_S10_S9",  "k_S9_S7",
       "k_S11_S0",  "k_S11_S10", "k_S0_S12",
       "k_S1a_S2a", "k_S1a_S0",  "k_S12_S11",
       "k_S2a_S3a", "k_S2a_S1a", "k_S11_S12",
       "k_S3a_S4",  "k_S3a_S2a", "k_S12_S0" >>

RateIndex(name) == CHOOSE i \in 1..Len(RateNames) : RateNames[i] = name

\* A rate table built from three values: the names of RateNames take them in turn.
RateTable(a, b, c) ==
    [name \in {RateNames[i] : i \in 1..Len(RateNames)} |->
        <<a, b, c>>[((RateIndex(name) - 1) % 3) + 1]]

RateTables == {RateTable(a, b, c) : a \in 1..MaxRate, b \in 1..MaxRate, c \in 1..MaxRate}

\* The analyte (cytosolic calcium) and MgATP vary; the other cofactors are fixed.
ConcTables ==
    {[Ca_cyt_conc |-> ca, Ca_sr_conc |-> 1, Pi_conc |-> 1,
      MgATP_conc |-> atp, MgADP_conc |-> 1] : ca \in 1..MaxConc, atp \in 1..MaxConc}

----------------------------------------------------------------------------
(* The branching step shared by every engine:                               *)
(*   if (randNum < p1) state = T1; else if (randNum < p2) state = T2;       *)
(*   [else if (randNum < p3) state = T3;]   otherwise the state is kept.    *)

\* Pick with the fall-through written as "advance by two" instead of "keep the state".
PickAdvances(s, u, p, target) ==
    IF u < p[1] THEN target[1]
    ELSE IF u < p[2] THEN target[2]
    ELSE IF Len(p) >= 3 /\ u < p[3] THEN target[3]
    ELSE (s + 2) % 13

Pick(s, u, p, target) ==
    IF u < p[1] THEN target[1]
    ELSE IF u < p[2] THEN target[2]
    ELSE IF Len(p) >= 3 /\ u < p[3] THEN target[3]
    ELSE s

\* p1 = t1; p2 = p1 + t2; p3 = p2 + t3
Cumulative(t) ==
    IF Len(t) = 2 THEN <<t[1], t[1] + t[2]>>
    ELSE <<t[1], t[1] + t[2], t[1] + t[2] + t[3]>>

\* p1 = t1; p2 = t2   (states 10, 11 and 12 of every engine)
Separate(t) == <<t[1], t[2]>>

----------------------------------------------------------------------------
(* update_States of the 13-state model *)

\* the probability terms of the outgoing edges of state s, in the order of the code
Terms13(s, k, c, d) ==
    CASE s = 0  -> <<k.k_S0_S1 * c.Ca_cyt_conc * d, k.k_S0_S11 * c.Pi_conc * d>>
      [] s = 1  -> <<k.k_S1_S2 * d, k.k_S1_S0 * d>>
      [] s = 2  -> <<k.k_S2_S3 * c.Ca_cyt_conc * d, k.k_S2_S1 * d>>
      [] s = 3  -> <<k.k_S3_S4 * c.MgATP_conc * d, k.k_S3_S2 * d>>
      [] s = 4  -> <<k.k_S4_S5 * d, k.k_S4_S3 * d>>
      [] s = 5  -> <<k.k_S5_S6a * d, k.k_S5_S4 * d, k.k_S5_S6 * d>>
      [] s = 6  -> <<k.k_S6a_S7 * d, k.k_S6a_S5 * d>>
      [] s = 7  -> <<k.k_S7_S8 * d, k.k_S7_S6a * c.MgADP_conc * d, k.k_S7_S6 * d>>
      [] s = 8  -> <<k.k_S6_S7 * d, k.k_S6_S5 * c.MgADP_conc * d>>
      [] s = 9  -> <<k.k_S8_S9 * d, k.k_S8_S7 * c.Ca_sr_conc * d>>
      [] s = 10 -> <<k.k_S9_S10 * d, k.k_S9_S8 * d>>
      [] s = 11 -> <<k.k_S10_S11 * d, k.k_S10_S9 * c.Ca_sr_conc * d>>
      [] s = 12 -> <<k.k_S11_S0 * d, k.k_S11_S10 * d>>

\* Targets13 with the forward branch of the last state written as "the next
\* index" (13) instead of wrapping to state 0.
Targets13NoWrap(s) ==
    CASE s = 0  -> <<1, 12>>
      [] s = 1  -> <<2, 0>>
      [] s = 2  -> <<3, 1>>
      [] s = 3  -> <<4, 2>>
      [] s = 4  -> <<5, 3>>
      [] s = 5  -> <<6, 8, 4>>
      [] s = 6  -> <<7, 5>>
      [] s = 7  -> <<9, 6, 8>>
      [] s = 8  -> <<7, 5>>
      [] s = 9  -> <<10, 7>>
      [] s = 10 -> <<11, 9>>
      [] s = 11 -> <<12, 10>>
      [] s = 12 -> <<13, 11>>

\* Targets13 with both branches of state 8 (S6) written as "stay": the state
\* would have no way out.
Targets13DeadEnd(s) ==
    IF s = 8 THEN <<8, 8>>
    ELSE IF s = 12 THEN <<0, 11>>
    ELSE Targets13NoWrap(s)

\* the states assigned by the branches of state s, in the order of the code
Targets13(s) ==
    CASE s = 0  -> <<1, 12>>
      [] s = 1  -> <<2, 0>>
      [] s = 2  -> <<3, 1>>
      [] s = 3  -> <<4, 2>>
      [] s = 4  -> <<5, 3>>
      [] s = 5  -> <<6, 8, 4>>
      [] s = 6  -> <<7, 5>>
      [] s = 7  -> <<9, 6, 8>>
      [] s = 8  -> <<7, 5>>
      [] s = 9  -> <<10, 7>>
      [] s = 10 -> <<11, 9>>
      [] s = 11 -> <<12, 10>>
      [] s = 12 -> <<0, 11>>

\* the thresholds p1, p2, p3 as the code assigns them
Thresholds13(s, k, c, d) ==
    IF s \in {10, 11, 12} THEN Separate(Terms13(s, k, c, d))
    ELSE Cumulative(Terms13(s, k, c, d))

\* if (current_state == 0) {...}  if (current_state == 1) {...} else if ... (== 12) {...}
\* Every test reads current_state, the copy taken before the first block.
update_States13(s, u, k, c, d) ==
    LET cs == s
        s0 == IF cs = 0 THEN Pick(s, u, Thresholds13(cs, k, c, d), Targets13(cs)) ELSE s
        s1 == IF cs \in 1..12 THEN Pick(s0, u, Thresholds13(cs, k, c, d), Targets13(cs)) ELSE s0
    IN  s1

----------------------------------------------------------------------------
(* update_States of the 16-state model (side path S1a = 13, S2a = 14, S3a = 15) *)

Terms16(s, k, c, d) ==
    CASE s = 0  -> <<k.k_S0_S1 * c.Ca_cyt_conc * d, k.k_S0_S11 * c.Pi_conc * d,
                     k.k_S0_S1a * c.MgATP_conc * d>>
      [] s = 1  -> <<k.k_S1_S2 * d, k.k_S1_S0 * c.Pi_conc * d, k.k_S1_S2a * c.MgATP_conc * d>>
      [] s = 2  -> <<k.k_S2_S3 * c.Ca_cyt_conc * d, k.k_S2_S1 * d, k.k_S2_S3a * c.MgATP_conc * d>>
      [] s = 3  -> <<k.k_S3_S4 * c.MgATP_conc * d, k.k_S3_S2 * d>>
      [] s = 4  -> <<k.k_S4_S5 * c.MgATP_conc * d, k.k_S4_S3 * d, k.k_S4_S3a * d>>
      [] s = 5  -> <<k.k_S5_S6a * d, k.k_S5_S4 * d, k.k_S5_S6 * d>>
      [] s = 6  -> <<k.k_S6a_S7 * d, k.k_S6a_S5 * d>>
      [] s = 7  -> <<k.k_S7_S8 * d, k.k_S7_S6a * c.MgADP_conc * d, k.k_S7_S6 * d>>
      [] s = 8  -> <<k.k_S6_S7 * d, k.k_S6_S5 * d>>
      [] s = 9  -> <<k.k_S8_S9 * c.MgATP_conc * d, k.k_S8_S7 * d>>
      [] s = 10 -> <<k.k_S9_S10 * d, k.k_S9_S8 * c.Ca_sr_conc * d>>
      [] s = 11 -> <<k.k_S10_S11 * d, k.k_S10_S9 * c.Ca_sr_conc * d>>
      [] s = 12 -> <<k.k_S11_S0 * d, k.k_S11_S10 * d>>
      [] s = 13 -> <<k.k_S1a_S2a * c.Ca_cyt_conc * d, k.k_S1a_S0 * d>>
      [] s = 14 -> <<k.k_S2a_S3a * d, k.k_S2a_S1a * d, k.k_S2a_S1 * d>>
      [] s = 15 -> <<k.k_S3a_S4 * c.Ca_cyt_conc * d, k.k_S3a_S2a * d, k.k_S3a_S2 * d>>

Targets16(s) ==
    CASE s = 0  -> <<1, 12, 13>>
      [] s = 1  -> <<2, 0, 14>>
      [] s = 2  -> <<3, 1, 13>>
      [] s = 3  -> <<4, 2>>
      [] s = 4  -> <<5, 3, 15>>
      [] s = 5  -> <<6, 8, 4>>
      [] s = 6  -> <<7, 5>>
      [] s = 7  -> <<9, 6, 8>>
      [] s = 8  -> <<7, 5>>
      [] s = 9  -> <<10, 7>>
      [] s = 10 -> <<11, 9>>
      [] s = 11 -> <<12, 10>>
      [] s = 12 -> <<0, 11>>
      [] s = 13 -> <<14, 0>>
      [] s = 14 -> <<15, 13, 1>>
      [] s = 15 -> <<4, 14, 2>>

Thresholds16(s, k, c, d) ==
    IF s \in {10, 11, 12} THEN Separate(Terms16(s, k, c, d))
    ELSE Cumulative(Terms16(s, k, c, d))

\* update_States16 with the separate if-statements testing the running value
\* of state instead of the copy current_state: a molecule that enters a side
\* state would be tested again by the blocks that follow.
update_States16Chained(s, u, k, c, d) ==
    LET s0 == IF s = 0 THEN Pick(s, u, Thresholds16(s, k, c, d), Targets16(s)) ELSE s
        s1 == IF s0 \in 1..12 THEN Pick(s0, u, Thresholds16(s0, k, c, d), Targets16(s0)) ELSE s0
        s2 == IF s1 = 13 THEN Pick(s1, u, Thresholds16(s1, k, c, d), Targets16(s1)) ELSE s1
        s3 == IF s2 = 14 THEN Pick(s2, u, Thresholds16(s2, k, c, d), Targets16(s2)) ELSE s2
        s4 == IF s3 = 15 THEN Pick(s3, u, Thresholds16(s3, k, c, d), Targets16(s3)) ELSE s3
    IN  s4

\* if (== 0)  if (== 1) else if ... (== 12)  if (== 13)  if (== 14)  if (== 15),
\* all on current_state.
update_States16(s, u, k, c, d) ==
    LET cs == s
        s0 == IF cs = 0 THEN Pick(s, u, Thresholds16(cs, k, c, d), Targets16(cs)) ELSE s
        s1 == IF cs \in 1..12 THEN Pick(s0, u, Thresholds16(cs, k, c, d), Targets16(cs)) ELSE s0
        s2 == IF cs = 13 THEN Pick(s1, u, Thresholds16(cs, k, c, d), Targets16(cs)) ELSE s1
        s3 == IF cs = 14 THEN Pick(s2, u, Thresholds16(cs, k, c, d), Targets16(cs)) ELSE s2
        s4 == IF cs = 15 THEN Pick(s3, u, Thresholds16(cs, k, c, d), Targets16(cs)) ELSE s3
    IN  s4

----------------------------------------------------------------------------
(* The inline engine of lastRun (13 states, the older rate names) *)

TermsLast(s, k, c, d) ==
    CASE s = 0  -> <<k.k_S0_S1 * c.Ca_cyt_conc * d, k.k_S0_S12 * c.Pi_conc * d>>
      [] s = 1  -> <<k.k_S1_S2 * d, k.k_S1_S0 * c.Pi_conc * d>>
      [] s = 2  -> <<k.k_S2_S3 * d, k.k_S2_S1 * c.Pi_conc * d>>
      [] s = 3  -> <<k.k_S3_S4 * c.MgATP_conc * d, k.k_S3_S2 * d>>
      [] s = 4  -> <<k.k_S4_S5 * c.MgATP_conc * d, k.k_S4_S3 * d>>
      [] s = 5  -> <<k.k_S5_S6 * d, k.k_S5_S4 * d, k.k_S5_S8 * d>>
      [] s = 6  -> <<k.k_S6_S7 * d, k.k_S6_S5 * d>>
      [] s = 7  -> <<k.k_S7_S9 * d, k.k_S7_S6 * c.MgADP_conc * d, k.k_S7_S8 * d>>
      [] s = 8  -> <<k.k_S8_S7 * d, k.k_S8_S5 * d>>
      [] s = 9  -> <<k.k_S9_S10 * c.MgATP_conc * d, k.k_S9_S7 * d>>
      [] s = 10 -> <<k.k_S10_S11 * d, k.k_S10_S9 * c.Ca_sr_conc * d>>
      [] s = 11 -> <<k.k_S11_S12 * d, k.k_S11_S10 * c.Ca_sr_conc * d>>
      [] s = 12 -> <<k.k_S12_S0 * d, k.k_S12_S11 * d>>

TargetsLast(s) ==
    CASE s = 0  -> <<1, 12>>
      [] s = 1  -> <<2, 0>>
      [] s = 2  -> <<3, 1>>
      [] s = 3  -> <<4, 2>>
      [] s = 4  -> <<5, 3>>
      [] s = 5  -> <<6, 8, 4>>
      [] s = 6  -> <<7, 5>>
      [] s = 7  -> <<9, 6, 8>>
      [] s = 8  -> <<7, 5>>
      [] s = 9  -> <<10, 7>>
      [] s = 10 -> <<11, 9>>
      [] s = 11 -> <<12, 10>>
      [] s = 12 -> <<0, 11>>

ThresholdsLast(s, k, c, d) ==
    IF s \in {10, 11, 12} THEN Separate(TermsLast(s, k, c, d))
    ELSE Cumulative(TermsLast(s, k, c, d))

lastRunStep(s, u, k, c, d) ==
    LET cs == s
        s0 == IF cs = 0 THEN Pick(s, u, ThresholdsLast(cs, k, c, d), TargetsLast(cs)) ELSE s
        s1 == IF cs \in 1..12 THEN Pick(s0, u, ThresholdsLast(cs, k, c, d), TargetsLast(cs)) ELSE s0
    IN  s1

----------------------------------------------------------------------------
(* Engine dispatch *)

Engines == {"update_States13", "update_States16", "lastRun"}

\* N: the number of states of the engine
NStates(e) == IF e = "update_States16" THEN 16 ELSE 13

Terms(e, s, k, c, d) ==
    CASE e = "update_States13" -> Terms13(s, k, c, d)
      [] e = "update_States16" -> Terms16(s, k, c, d)
      [] e = "lastRun"         -> TermsLast(s, k, c, d)

Targets(e, s) ==
    CASE e = "update_States13" -> Targets13(s)
      [] e = "update_States16" -> Targets16(s)
      [] e = "lastRun"         -> TargetsLast(s)

Thresholds(e, s, k, c, d) ==
    CASE e = "update_States13" -> Thresholds13(s, k, c, d)
      [] e = "update_States16" -> Thresholds16(s, k, c, d)
      [] e = "lastRun"         -> ThresholdsLast(s, k, c, d)

----------------------------------------------------------------------------
(* The ensemble loop of get_Residual (src/get_Residual.cpp)                 *)

\* molecules per concentration point (10000 in main)
n_SERCA_Molecules == 2
\* number of concentration points (16 in main)
n_pCa == 2
\* max_tsteps (100001 in main, scaled: 2 * save_jump + 1)
max_tsteps == 7
\* const int save_jump (1000 in get_Residual.cpp, scaled: the first sample of a
\* molecule is taken at step save_jump - OutputCountInit, before the last step
\* of the first bin, as in the program)
save_jump == 3
\* int output_count = 10 at the start of each molecule (scaled, below save_jump)
OutputCountInit == 1
\* the trailing window: n runs from max_tsteps - 10000 and the sum is divided by 10000 (scaled)
Window == 6
\* float S0[(max_tsteps-1)/10]: the divisor of the array length (scaled, below save_jump)
HistDiv == 1

States13 == 0..12

\* number of elements of each histogram array
HistSize == (max_tsteps - 1) \div HistDiv

\* C++ integer division truncates toward zero
CDiv(a, b) == IF a >= 0 THEN a \div b ELSE -((-a) \div b)

ZeroHist == [s \in States13 |-> [b \in 0..(HistSize - 1) |-> 0]]

\* The arrays are declared without an initialiser: their first content is
\* whatever the stack holds.  Three such contents are enumerated: all zero, a
\* positive value in one bin, a negative value in one bin.
UninitialisedHists ==
    { ZeroHist,
      [ZeroHist EXCEPT ![0][0] = 1],
      [ZeroHist EXCEPT ![1][1] = -3] }

\* calConc[cal]: the grid is increasing; point cal has concentration cal + 1
calConc(i) == IF i + 1 <= MaxConc THEN i + 1 ELSE MaxConc

\* the draws enumerated in the ensemble loop: the smallest and the largest value of randNum
SimDraws == {0, RandMax}

\* S_temp of state s after the averaging loop, times n_SERCA_Molecules:
\* for (n = max_tsteps - 10000; n < max_tsteps - 1; n++) S_temp += S[n/save_jump] / n_SERCA_Molecules
RECURSIVE WindowSum(_, _, _)
WindowSum(h, s, i) ==
    IF i >= max_tsteps - 1 THEN 0
    ELSE h[s][CDiv(i, save_jump)] + WindowSum(h, s, i + 1)

\* S_SS of state s, in units of 1/(n_SERCA_Molecules * Window)
SteadyState(h, s) == WindowSum(h, s, max_tsteps - Window)

\* ss_bound_Ca[cal] = S1_SS + S2_SS + S9_SS + S8_SS
\*                    + 2 * (S3_SS + S4_SS + S5_SS + S6a_SS + S7_SS + S6_SS)
\* (array S6a is state 6, S7 state 7, S6 state 8, S8 state 9, S9 state 10)
BoundCa(h) ==
      SteadyState(h, 1) + SteadyState(h, 2) + SteadyState(h, 10) + SteadyState(h, 9)
    + 2 * ( SteadyState(h, 3) + SteadyState(h, 4) + SteadyState(h, 5)
          + SteadyState(h, 6) + SteadyState(h, 7) + SteadyState(h, 8) )

\* lastRun: ss_bound_Ca2[i] = S1_SS_last + S2_SS_last + S10_SS_last
\*            + 2 * (S3_SS_last + S4_SS_last + S5_SS_last + S6_SS_last
\*                   + S7_SS_last + S8_SS_last + S9_SS_last)
\* (array Sk is state k)
BoundCaLast(h) ==
      SteadyState(h, 1) + SteadyState(h, 2) + SteadyState(h, 10)
    + 2 * ( SteadyState(h, 3) + SteadyState(h, 4) + SteadyState(h, 5)
          + SteadyState(h, 6) + SteadyState(h, 7) + SteadyState(h, 8)
          + SteadyState(h, 9) )

\* the raw bound-calcium value of evaluator v
RawBound(v, h) == IF v = "lastRun" THEN BoundCaLast(h) ELSE BoundCa(h)

\* if (output_count == save_jump) S<state>[n/save_jump] += 1.0
Record(h, s, i, oc) ==
    IF oc = save_jump
    THEN [h EXCEPT ![s][CDiv(i, save_jump)] = @ + 1]
    ELSE h

\* NextOutputCount with the counter reset to 2 instead of 1: the updates would
\* come every save_jump - 1 steps.
NextOutputCountShort(oc) == IF oc = save_jump THEN 2 ELSE oc + 1

\* if (output_count == save_jump) output_count = 1; else output_count += 1
NextOutputCount(oc) == IF oc = save_jump THEN 1 ELSE oc + 1

\* the steps at which a molecule is recorded: output_count starts at OutputCountInit
\* and reaches save_jump every save_jump steps
RecordedSteps == {i \in 0..(max_tsteps - 1) : (i + OutputCountInit) % save_jump = 0}

\* the bins that the time loop writes
RecordedBins == {CDiv(i, save_jump) : i \in RecordedSteps}

\* the content of bin b summed over the states
RECURSIVE BinTotalUpTo(_, _, _)
BinTotalUpTo(h, b, s) == IF s < 0 THEN 0 ELSE h[s][b] + BinTotalUpTo(h, b, s - 1)

BinTotal(h, b) == BinTotalUpTo(h, b, 12)

\* ---- the values of the swarm variables before main runs (globals are zero)

\* number of particles (100 in the serial main, 50 in the MPI main)
n_particles_PSO == 2

Particles == 0..(n_particles_PSO - 1)

\* a value that has not been assigned (a local before its declaration)
Unset == <<0, -1>>

ZeroArray == [i \in Particles |-> Zero]

\* the evaluator is called with the timestep count of main; no molecule is followed
IdleWin ==
    /\ tsteps = max_tsteps
    /\ written = <<>>
    /\ steps_read = <<>>
    /\ n_cond = n_pCa
    /\ grid_reads = <<>>
    /\ rand_events = <<>>

\* the split is not being computed
IdlePart ==
    /\ n_particles = n_particles_PSO
    /\ ranged = {}
    /\ owned = {}

IdlePSO ==
    /\ main = "none"
    /\ id = 0
    /\ nproc = 1
    /\ IdlePart
    /\ X = ZeroArray
    /\ X_local = ZeroArray
    /\ V = ZeroArray
    /\ residual_cost_func = ZeroArray
    /\ Res_pbest = ZeroArray
    /\ X_pbest = ZeroArray
    /\ Res_gbest = Unset
    /\ X_gbest = Zero
    /\ i_best = 0
    /\ it = 0
    /\ w = Zero
    /\ ip = 0
    /\ total_gbest = <<>>
    /\ evals = [i \in Particles |-> <<>>]

IdleSim ==
    /\ pc = "idle"
    /\ cal = 0
    /\ rr = 0
    /\ n = 0
    /\ output_count = 0
    /\ hist = ZeroHist
    /\ ss_bound_Ca = <<>>
    /\ boundSS_max_temp = 0

InitSim ==
    /\ engine = "update_States13"
    /\ state = 0
    /\ current_state = 0
    /\ randNum = 0
    /\ rates = RateTable(1, 1, 1)
    /\ conc = [Ca_cyt_conc |-> 1, Ca_sr_conc |-> 1, Pi_conc |-> 1,
               MgATP_conc |-> 1, MgADP_conc |-> 1]
    /\ dt = 1
    /\ op = "init"
    /\ pc = "cal_loop"
    /\ cal = 0
    /\ rr = 0
    /\ n = 0
    /\ output_count = 0
    /\ hist \in UninitialisedHists
    /\ ss_bound_Ca = <<>>
    /\ boundSS_max_temp = 0
    /\ variant = "get_Residual"
    /\ norm_ss_bound = <<>>
    /\ residual = Zero
    /\ IdlePSO
    /\ IdleWin

\* for (cal = 0; cal < n_pCa; cal++) { Ca_cyt_conc = calConc[cal]; S_temp = 0; S_SS = 0; ...
BeginPoint ==
    /\ pc = "cal_loop"
    /\ cal < n_pCa
    /\ conc' = [conc EXCEPT !.Ca_cyt_conc = calConc(cal)]
    /\ rr' = 0
    /\ pc' = "rr_loop"
    /\ op' = "begin_point"
    /\ UNCHANGED <<engine, state, current_state, randNum, rates, dt,
                   cal, n, output_count, hist, ss_bound_Ca, boundSS_max_temp, resVars, psoVars, winVars>>

\* for (rr = 0; rr < n_SERCA_Molecules; rr++) { state = 0; output_count = 10; n = 0 ...
BeginMolecule ==
    /\ pc = "rr_loop"
    /\ rr < n_SERCA_Molecules
    /\ state' = 0
    /\ output_count' = OutputCountInit
    /\ n' = 0
    /\ pc' = "n_loop"
    /\ op' = "start"
    /\ UNCHANGED <<engine, current_state, randNum, rates, conc, dt,
                   cal, rr, hist, ss_bound_Ca, boundSS_max_temp, resVars, psoVars, winVars>>

\* one pass of the time loop: update_States, the histogram update, the counter
TimeStep ==
    /\ pc = "n_loop"
    /\ n < max_tsteps
    /\ \E u \in SimDraws :
         LET s2 == update_States13(state, u, rates, conc, dt) IN
         /\ randNum' = u
         /\ current_state' = state
         /\ state' = s2
         /\ hist' = Record(hist, s2, n, output_count)
    /\ output_count' = NextOutputCount(output_count)
    /\ n' = n + 1
    /\ op' = "update_States"
    /\ UNCHANGED <<engine, rates, conc, dt, pc, cal, rr, ss_bound_Ca, boundSS_max_temp, resVars, psoVars, winVars>>

\* the time loop of one molecule ends: rr++
EndMolecule ==
    /\ pc = "n_loop"
    /\ n = max_tsteps
    /\ rr' = rr + 1
    /\ pc' = "rr_loop"
    /\ op' = "end_molecule"
    /\ UNCHANGED <<smVars, cal, n, output_count, hist, ss_bound_Ca, boundSS_max_temp, resVars, psoVars, winVars>>

\* all molecules of the point are done: the averaging loop, S_SS, ss_bound_Ca[cal],
\* the running maximum, cal++
Average ==
    /\ pc = "rr_loop"
    /\ rr = n_SERCA_Molecules
    /\ ss_bound_Ca' = Append(ss_bound_Ca, RawBound(variant, hist))
    /\ boundSS_max_temp' = IF RawBound(variant, hist) > boundSS_max_temp
                           THEN RawBound(variant, hist) ELSE boundSS_max_temp
    /\ cal' = cal + 1
    /\ pc' = "cal_loop"
    /\ op' = "average"
    /\ UNCHANGED <<smVars, rr, n, output_count, hist, resVars, psoVars, winVars>>

\* the loop over the concentration points ends
EndPoints ==
    /\ pc = "cal_loop"
    /\ cal = n_pCa
    /\ pc' = "normalise"
    /\ op' = "end_points"
    /\ UNCHANGED <<smVars, cal, rr, n, output_count, hist, ss_bound_Ca, boundSS_max_temp, resVars, psoVars, winVars>>

----------------------------------------------------------------------------
(* Normalisation of the raw curve and the residual                          *)
(* (src/get_Residual.cpp, src/get_Residual_Pi.cpp, src/unnamed/part_000,    *)
(*  src/lastRun.cpp)                                                        *)

\* the raw values are held in units of 1/(n_SERCA_Molecules * Window)
RawUnit == n_SERCA_Molecules * Window

Value(raw) == Frac(raw, RawUnit)

Variants == {"get_Residual", "get_Residual_Pi", "get_Residual_4", "lastRun"}

\* norm_bound_Ca_Exp[] / norm_phosphorylated_Exp[]: an increasing table that
\* ends with 1; point i of n_pCa holds i/n_pCa
RefCurve == [i \in 1..n_pCa |-> Frac(i, n_pCa)]

\* norm_ss_bound[cal2] = ss_bound[cal2] / boundSS_max_temp
NormaliseCurve(raw, max) == [i \in 1..Len(raw) |-> FDiv(Value(raw[i]), Value(max))]

\* pow((ref[cc] - norm[cc]), 2) in get_Residual.cpp;
\* pow((ref[cc] - norm[cc]/boundSS_max_temp), 2) in get_Residual_Pi.cpp and part_000
ResidualTerm(v, ref, nrm, max) ==
    IF v = "get_Residual" THEN FSq(FSub(ref, nrm))
    ELSE FSq(FSub(ref, FDiv(nrm, Value(max))))

\* residual_temp after the loop over cc
RECURSIVE ResidualTemp(_, _, _, _)
ResidualTemp(v, nrm, max, i) ==
    IF i = 0 THEN Zero
    ELSE FAdd(ResidualTemp(v, nrm, max, i - 1), ResidualTerm(v, RefCurve[i], nrm[i], max))

IdleRes ==
    /\ variant = "none"
    /\ norm_ss_bound = <<>>
    /\ residual = Zero

\* the loop "divide by largest number"
Normalise ==
    /\ pc = "normalise"
    /\ norm_ss_bound' = NormaliseCurve(ss_bound_Ca, boundSS_max_temp)
    /\ pc' = IF variant = "lastRun" THEN "done" ELSE "residual"
    /\ op' = "normalise"
    /\ UNCHANGED <<smVars, cal, rr, n, output_count, hist, ss_bound_Ca,
                   boundSS_max_temp, variant, residual, psoVars, winVars>>

\* residual_temp = sum of the squared differences; residual = pow(residual_temp, 0.5)
ComputeResidual ==
    /\ pc = "residual"
    /\ residual' = ResidualTemp(variant, norm_ss_bound, boundSS_max_temp, n_pCa)
    /\ pc' = "done"
    /\ op' = "residual"
    /\ UNCHANGED <<smVars, cal, rr, n, output_count, hist, ss_bound_Ca,
                   boundSS_max_temp, variant, norm_ss_bound, psoVars, winVars>>

NextSim ==
    \/ BeginPoint \/ BeginMolecule \/ TimeStep \/ EndMolecule \/ Average \/ EndPoints
    \/ Normalise \/ ComputeResidual

SpecSim == InitSim /\ [][NextSim]_vars

----------------------------------------------------------------------------
(* The swarm optimizer: the serial main and the MPI main (src/unnamed/part_001) *)

\* number of swarm iterations (100 in the serial main, 20 in the MPI main)
max_iter == 1
\* number of MPI processes
MaxProc == 2
\* largest residual that an evaluation returns (residuals are 0..MaxRes, or NaN)
MaxRes == 1

\* the values that get_Residual returns: it returns NaN when the tracked maximum is 0
ResValues == {Frac(r, 1) : r \in 0..MaxRes} \cup {NaN}

\* rand() / RAND_MAX: the smallest and the largest value
UnitDraws == {Frac(u, RandMax) : u \in SimDraws}

\* k_lower = 0.1 * k and k_upper = 10 * k, in units of 0.1 * k
X_lower == <<1, 1>>
X_upper == <<100, 1>>

\* X[i] = lower + (upper - lower) * rand() / RAND_MAX
InitialPosition(r) == FAdd(X_lower, FMul(FSub(X_upper, X_lower), r))

\* V[i] = 0.25 * (upper - lower) * rand() / RAND_MAX
InitialVelocity(r) == FMul(<<1, 4>>, FMul(FSub(X_upper, X_lower), r))

\* an end of range that is rounded up instead of down
RangeEndRoundedUp(k, np, nw) == CDiv((k + 1) * np + nw - 1, nw)

\* id*n_particles_PSO/p and (id+1)*n_particles_PSO/p for rank k, np particles
\* and nw processes (integer division)
RangeStart(k, np, nw) == CDiv(k * np, nw)
RangeEnd(k, np, nw) == CDiv((k + 1) * np, nw)

\* int start = id*n_particles_PSO/p; int end = (id+1)*n_particles_PSO/p
\* (the serial main loops over every particle)
Start(m, r, np) == IF m = "serial" THEN 0 ELSE RangeStart(r, n_particles_PSO, np)
End(m, r, np) == IF m = "serial" THEN n_particles_PSO ELSE RangeEnd(r, n_particles_PSO, np)

w_max == One
w_min == <<3, 10>>
c1 == <<21, 20>>
c2 == <<21, 20>>
\* dw = (w_max - w_min) / max_iter
dw == FDiv(FSub(w_max, w_min), Frac(max_iter, 1))

\* w = w_min + it * dw
Inertia(t) == FAdd(w_min, FMul(Frac(t, 1), dw))

\* a velocity update without the inertia term w * V[i]
VelocityNoInertia(wt, v, x, pb, gb, r1, r2) ==
    FAdd(FMul(FMul(c1, r1), FSub(pb, x)), FMul(FMul(c2, r2), FSub(gb, x)))

\* V[i] = w * V[i] + c1 * rand * (pbest[i] - X[i]) + c2 * rand * (gbest - X[i])
Velocity(wt, v, x, pb, gb, r1, r2) ==
    FAdd(FAdd(FMul(wt, v), FMul(FMul(c1, r1), FSub(pb, x))),
         FMul(FMul(c2, r2), FSub(gb, x)))

\* the scan for the smallest residual, from index i to hi - 1, with the running
\* minimum m found at index im:   if (residual_cost_func[i] < m) { m = ...; im = i; }
RECURSIVE ScanMin(_, _, _, _, _)
ScanMin(res, m, im, i, hi) ==
    IF i >= hi THEN <<m, im>>
    ELSE IF FLt(res[i], m) THEN ScanMin(res, res[i], i, i + 1, hi)
    ELSE ScanMin(res, m, im, i + 1, hi)

\* a scan that finds the smallest residual and keeps i_min_Res = 0
MinResIndexKept(res) == <<ScanMin(res, res[0], 0, 0, n_particles_PSO)[1], 0>>

\* float min_Res = residual_cost_func[0]; int i_min_Res = 0; for (i = 0; i < n_particles_PSO; i++) ...
MinRes(res) == ScanMin(res, res[0], 0, 0, n_particles_PSO)

\* a test that replaces the global best whatever the new minimum is
ReplacesAlways(minRes, g) == TRUE

\* if (min_Res <= Res_gbest)
ReplacesGbest(minRes, g) == FLeq(minRes, g)

\* if (residual_cost_func[i] <= Res_pbest[i])
ReplacesPbest(r, pb) == FLeq(r, pb)

\* what the loop of a phase does after particle i: the next particle, or the
\* first particle (first) of the next phase (next)
NextParticle(i, hi, first) == IF i + 1 < hi THEN i + 1 ELSE first

\* a loop that is left after its first pass
NextPhaseAfterOne(i, hi, phase, next) == next

NextPhase(i, hi, phase, next) == IF i + 1 < hi THEN phase ELSE next

\* a main that goes from the particle loop straight to the search for the
\* new minimum
AfterMoveNoReduce(m) == "update_gbest"

\* what follows the particle loop of an iteration: the serial main searches
\* the new minimum, the MPI main first reduces the positions
AfterMove(m) == IF m = "serial" THEN "update_gbest" ELSE "reduce"

Owned(i) == Start(main, id, nproc) <= i /\ i < End(main, id, nproc)

\* MPI_Allreduce(&X_local, &X, n_particles_PSO, MPI_DOUBLE, MPI_SUM, ...): the
\* element-wise sum of the X_local of this rank and of the other ranks
AllreduceSum(local, others) == [i \in Particles |-> FAdd(local[i], others[i])]

\* The receive buffer X is an array of float and the reduction writes
\* n_particles_PSO doubles into it: what the program then reads from X is not
\* defined.  Two contents are enumerated: the sum, and values that are no number.
ReceivedInFloatArray(sum) == {sum, [i \in Particles |-> NaN]}

restSim == <<cal, rr, n, output_count, hist, ss_bound_Ca, boundSS_max_temp>>

InitPSO ==
    /\ engine = "none"
    /\ state = 0
    /\ current_state = 0
    /\ randNum = 0
    /\ rates = RateTable(1, 1, 1)
    /\ conc = [Ca_cyt_conc |-> 1, Ca_sr_conc |-> 1, Pi_conc |-> 1,
               MgATP_conc |-> 1, MgADP_conc |-> 1]
    /\ dt = 1
    /\ op = "init"
    /\ cal = 0
    /\ rr = 0
    /\ n = 0
    /\ output_count = 0
    /\ hist = ZeroHist
    /\ ss_bound_Ca = <<>>
    /\ boundSS_max_temp = 0
    /\ IdleRes
    /\ main \in {"serial", "mpi"}
    /\ nproc = IF main = "serial" THEN 1 ELSE MaxProc
    /\ id \in 0..(nproc - 1)
    /\ IdlePart
    /\ IdleWin
    /\ pc = "init_particles"
    /\ ip = Start(main, id, nproc)
    /\ X = ZeroArray
    /\ X_local = ZeroArray
    /\ V = ZeroArray
    /\ residual_cost_func = ZeroArray
    /\ Res_pbest = ZeroArray
    /\ X_pbest = ZeroArray
    /\ Res_gbest = Unset
    /\ X_gbest = Zero
    /\ i_best = 0
    /\ it = 0
    /\ w = Zero
    /\ total_gbest = [g \in 0..max_iter |-> Unset]
    /\ evals = [i \in Particles |-> <<>>]

\* Step 1, one particle: the random position and velocity
InitParticle ==
    /\ pc = "init_particles"
    /\ \E rx \in UnitDraws, rv \in UnitDraws :
         /\ IF main = "serial"
            THEN X' = [X EXCEPT ![ip] = InitialPosition(rx)] /\ UNCHANGED X_local
            ELSE X_local' = [X_local EXCEPT ![ip] = InitialPosition(rx)] /\ UNCHANGED X
         /\ V' = [V EXCEPT ![ip] = InitialVelocity(rv)]
    /\ ip' = NextParticle(ip, End(main, id, nproc), Start(main, id, nproc))
    /\ pc' = NextPhase(ip, End(main, id, nproc), pc, "init_evaluate")
    /\ op' = "init_particle"
    /\ UNCHANGED <<smVars, restSim, resVars, main, id, nproc, partVars, winVars, residual_cost_func, Res_pbest,
                   X_pbest, Res_gbest, X_gbest, i_best, it, w, total_gbest, evals>>

\* Step 2, one particle: residual_cost_func[i] = get_Residual(...)
EvaluateInitial ==
    /\ pc = "init_evaluate"
    /\ \E r \in ResValues :
         /\ residual_cost_func' = [residual_cost_func EXCEPT ![ip] = r]
         /\ evals' = [evals EXCEPT ![ip] = <<r>>]
    /\ ip' = NextParticle(ip, End(main, id, nproc), Start(main, id, nproc))
    /\ pc' = NextPhase(ip, End(main, id, nproc), pc,
                       IF main = "serial" THEN "seed_gbest" ELSE "init_reduce")
    /\ op' = "evaluate"
    /\ UNCHANGED <<smVars, restSim, resVars, main, id, nproc, partVars, winVars, X, X_local, V, Res_pbest,
                   X_pbest, Res_gbest, X_gbest, i_best, it, w, total_gbest>>

\* MPI main: the barrier and the all-reduce of the initial positions.  The
\* other ranks hold zero for the particles of this rank, and the initial
\* position of the particles they own, which they have evaluated.
InitAllreduce ==
    /\ pc = "init_reduce"
    /\ \E rx \in UnitDraws, r \in ResValues :
         /\ X' \in ReceivedInFloatArray(AllreduceSum(X_local,
                     [i \in Particles |-> IF Owned(i) THEN Zero ELSE InitialPosition(rx)]))
         /\ evals' = [i \in Particles |-> IF Owned(i) THEN evals[i] ELSE <<r>>]
    /\ pc' = "seed_gbest"
    /\ op' = "allreduce"
    /\ UNCHANGED <<smVars, restSim, resVars, main, id, nproc, partVars, winVars, X_local, V, residual_cost_func,
                   Res_pbest, X_pbest, Res_gbest, X_gbest, i_best, it, w, ip, total_gbest>>

\* float Res_gbest = residual_cost_func[0]; int i_Res_gbest = 0
SeedGbest ==
    /\ pc = "seed_gbest"
    /\ Res_gbest' = residual_cost_func[0]
    /\ i_best' = 0
    /\ ip' = Start(main, id, nproc)
    /\ pc' = "init_scan"
    /\ op' = "seed_gbest"
    /\ UNCHANGED <<smVars, restSim, resVars, main, id, nproc, partVars, winVars, X, X_local, V, residual_cost_func,
                   Res_pbest, X_pbest, X_gbest, it, w, total_gbest, evals>>

\* one pass of the loop that finds the initial global best and sets Res_pbest[i]
ScanInitial ==
    /\ pc = "init_scan"
    /\ IF FLt(residual_cost_func[ip], Res_gbest)
       THEN Res_gbest' = residual_cost_func[ip] /\ i_best' = ip
       ELSE UNCHANGED <<Res_gbest, i_best>>
    /\ Res_pbest' = [Res_pbest EXCEPT ![ip] = residual_cost_func[ip]]
    /\ ip' = NextParticle(ip, End(main, id, nproc), 0)
    /\ pc' = NextPhase(ip, End(main, id, nproc), pc, "init_best")
    /\ op' = "scan"
    /\ UNCHANGED <<smVars, restSim, resVars, main, id, nproc, partVars, winVars, X, X_local, V, residual_cost_func,
                   X_pbest, X_gbest, it, w, total_gbest, evals>>

\* k_gbest = X[i_Res_gbest]; for every i: k_pbest[i] = X[i]
InitBestPositions ==
    /\ pc = "init_best"
    /\ X_gbest' = X[i_best]
    /\ X_pbest' = X
    /\ it' = 0
    /\ pc' = "iter_head"
    /\ op' = "init_best"
    /\ UNCHANGED <<smVars, restSim, resVars, main, id, nproc, partVars, winVars, X, X_local, V, residual_cost_func,
                   Res_pbest, Res_gbest, i_best, w, ip, total_gbest, evals>>

\* for (it = 0; it < max_iter+1; it++) { w = w_min + it*dw; ...
BeginIteration ==
    /\ pc = "iter_head"
    /\ it < max_iter + 1
    /\ w' = Inertia(it)
    /\ ip' = 0
    /\ pc' = "move"
    /\ op' = "begin_iteration"
    /\ UNCHANGED <<smVars, restSim, resVars, main, id, nproc, partVars, winVars, X, X_local, V, residual_cost_func,
                   Res_pbest, X_pbest, Res_gbest, X_gbest, i_best, it, total_gbest, evals>>

\* one particle of the iteration: velocity update, position update, evaluation
MoveParticle ==
    /\ pc = "move"
    /\ \E r1 \in UnitDraws, r2 \in UnitDraws, r \in ResValues :
         LET v2 == Velocity(w, V[ip], X[ip], X_pbest[ip], X_gbest, r1, r2) IN
         /\ V' = [V EXCEPT ![ip] = v2]
         /\ IF main = "serial"
            THEN X' = [X EXCEPT ![ip] = FAdd(X[ip], v2)] /\ UNCHANGED X_local
            ELSE X_local' = [X_local EXCEPT ![ip] = FAdd(X[ip], v2)] /\ UNCHANGED X
         /\ residual_cost_func' = [residual_cost_func EXCEPT ![ip] = r]
         /\ evals' = [evals EXCEPT ![ip] = Append(@, r)]
    /\ ip' = NextParticle(ip, n_particles_PSO, 0)
    /\ pc' = NextPhase(ip, n_particles_PSO, pc, AfterMove(main))
    /\ op' = "move"
    /\ UNCHANGED <<smVars, restSim, resVars, main, id, nproc, partVars, winVars, Res_pbest, X_pbest,
                   Res_gbest, X_gbest, i_best, it, w, total_gbest>>

\* MPI main: the all-reduce of the iteration.  Every rank has written every
\* element of its X_local.
IterAllreduce ==
    /\ pc = "reduce"
    /\ \E rx \in UnitDraws :
         X' \in ReceivedInFloatArray(AllreduceSum(X_local,
                  [i \in Particles |-> InitialPosition(rx)]))
    /\ pc' = "update_gbest"
    /\ op' = "allreduce"
    /\ UNCHANGED <<smVars, restSim, resVars, main, id, nproc, partVars, winVars, X_local, V, residual_cost_func,
                   Res_pbest, X_pbest, Res_gbest, X_gbest, i_best, it, w, ip, total_gbest, evals>>

\* the scan for min_Res, the replacement of the global best, total_gbest[it] = Res_gbest
UpdateGbest ==
    /\ pc = "update_gbest"
    /\ LET m == MinRes(residual_cost_func)
           g == IF ReplacesGbest(m[1], Res_gbest) THEN m[1] ELSE Res_gbest IN
         /\ Res_gbest' = g
         /\ X_gbest' = IF ReplacesGbest(m[1], Res_gbest) THEN X[m[2]] ELSE X_gbest
         /\ total_gbest' = IF main = "serial"
                           THEN [total_gbest EXCEPT ![it] = g] ELSE total_gbest
    /\ pc' = "update_pbest"
    /\ op' = "update_gbest"
    /\ UNCHANGED <<smVars, restSim, resVars, main, id, nproc, partVars, winVars, X, X_local, V, residual_cost_func,
                   Res_pbest, X_pbest, i_best, it, w, ip, evals>>

\* the loop that replaces the personal bests; the iteration ends: it++
UpdatePbest ==
    /\ pc = "update_pbest"
    /\ Res_pbest' = [i \in Particles |->
                       IF ReplacesPbest(residual_cost_func[i], Res_pbest[i])
                       THEN residual_cost_func[i] ELSE Res_pbest[i]]
    /\ X_pbest' = [i \in Particles |->
                     IF ReplacesPbest(residual_cost_func[i], Res_pbest[i])
                     THEN X[i] ELSE X_pbest[i]]
    /\ it' = it + 1
    /\ pc' = "iter_head"
    /\ op' = "update_pbest"
    /\ UNCHANGED <<smVars, restSim, resVars, main, id, nproc, partVars, winVars, X, X_local, V, residual_cost_func,
                   Res_gbest, X_gbest, i_best, w, ip, total_gbest, evals>>

\* the iteration loop ends: the result is printed and lastRun is called
EndSwarm ==
    /\ pc = "iter_head"
    /\ it >= max_iter + 1
    /\ pc' = "done"
    /\ op' = "end_swarm"
    /\ UNCHANGED <<smVars, restSim, resVars, psoVars, winVars>>

NextPSO ==
    \/ InitParticle \/ EvaluateInitial \/ InitAllreduce \/ SeedGbest \/ ScanInitial
    \/ InitBestPositions \/ BeginIteration \/ MoveParticle \/ IterAllreduce
    \/ UpdateGbest \/ UpdatePbest \/ EndSwarm

SpecPSO == InitPSO /\ [][NextPSO]_vars

----------------------------------------------------------------------------
(* SpecRes: the evaluators from the raw curve to the returned residual.     *)
(* The simulation of a concentration point is replaced by its result, a     *)
(* raw value drawn from RawValues.                                          *)

\* largest raw value of a point, in units of 1/RawUnit
MaxRaw == 3
\* a point computed from a histogram that started with a negative content is
\* negative: the smallest raw value is -MaxGarbage
MaxGarbage == 1

RawValues == (0 - MaxGarbage)..MaxRaw

InitRes ==
    /\ engine = "none"
    /\ state = 0
    /\ current_state = 0
    /\ randNum = 0
    /\ rates = RateTable(1, 1, 1)
    /\ conc = [Ca_cyt_conc |-> 1, Ca_sr_conc |-> 1, Pi_conc |-> 1,
               MgATP_conc |-> 1, MgADP_conc |-> 1]
    /\ dt = 1
    /\ op = "init"
    /\ pc = "cal_loop"
    /\ cal = 0
    /\ rr = 0
    /\ n = 0
    /\ output_count = 0
    /\ hist = ZeroHist
    /\ ss_bound_Ca = <<>>
    /\ boundSS_max_temp = 0
    /\ variant \in Variants
    /\ norm_ss_bound = <<>>
    /\ residual = Zero
    /\ IdlePSO
    /\ IdleWin

\* one pass of the loop over the points: the raw value of the point and the
\* running maximum
\*   if (ss_bound[cal] > boundSS_max_temp) boundSS_max_temp = ss_bound[cal]
RecordPoint ==
    /\ pc = "cal_loop"
    /\ cal < n_pCa
    /\ \E v \in RawValues :
         /\ ss_bound_Ca' = Append(ss_bound_Ca, v)
         /\ boundSS_max_temp' = IF v > boundSS_max_temp THEN v ELSE boundSS_max_temp
    /\ cal' = cal + 1
    /\ op' = "average"
    /\ UNCHANGED <<smVars, pc, rr, n, output_count, hist, resVars, psoVars, winVars>>

NextRes == RecordPoint \/ EndPoints \/ Normalise \/ ComputeResidual

SpecRes == InitRes /\ [][NextRes]_vars

----------------------------------------------------------------------------
(* SpecSM: one molecule driven by one engine *)

InitSM ==
    /\ engine \in Engines
    /\ state = 0
    /\ current_state = 0
    /\ randNum = 0
    /\ rates \in RateTables
    /\ conc \in ConcTables
    /\ dt = 1
    /\ op = "init"
    /\ IdleSim
    /\ IdleRes
    /\ IdlePSO
    /\ IdleWin

\* One call of update_States of the 13-state model.
CallUpdateStates13 ==
    /\ engine = "update_States13"
    /\ \E u \in 0..RandMax :
         /\ randNum' = u
         /\ current_state' = state
         /\ state' = update_States13(state, u, rates, conc, dt)
    /\ op' = "update_States"
    /\ UNCHANGED <<engine, rates, conc, dt, simVars, resVars, psoVars, winVars>>

\* One call of update_States of the 16-state model.
CallUpdateStates16 ==
    /\ engine = "update_States16"
    /\ \E u \in 0..RandMax :
         /\ randNum' = u
         /\ current_state' = state
         /\ state' = update_States16(state, u, rates, conc, dt)
    /\ op' = "update_States"
    /\ UNCHANGED <<engine, rates, conc, dt, simVars, resVars, psoVars, winVars>>

\* One pass through the inline engine of lastRun.
CallLastRunStep ==
    /\ engine = "lastRun"
    /\ \E u \in 0..RandMax :
         /\ randNum' = u
         /\ current_state' = state
         /\ state' = lastRunStep(state, u, rates, conc, dt)
    /\ op' = "update_States"
    /\ UNCHANGED <<engine, rates, conc, dt, simVars, resVars, psoVars, winVars>>

\* The next molecule starts: state = 0.
StartMolecule ==
    /\ op = "update_States"
    /\ state' = 0
    /\ op' = "start"
    /\ UNCHANGED <<engine, current_state, randNum, rates, conc, dt, simVars, resVars, psoVars, winVars>>

NextSM == CallUpdateStates13 \/ CallUpdateStates16 \/ CallLastRunStep \/ StartMolecule

SpecSM == InitSM /\ [][NextSM]_vars

----------------------------------------------------------------------------
(* C1 *)

\* C1: closure - after any call of update_States the state is in 0..N-1
\* (N = 13 for the 13-state model, N = 16 for the 16-state model), so a
\* trajectory started at state 0 never leaves [0, N).
C1_Closure ==
    /\ engine = "update_States13" => state \in 0..12
    /\ engine = "update_States16" => state \in 0..15

\* a call has moved a molecule of the 16-state model into its last state
C1_Witness ==
    /\ engine = "update_States16"
    /\ op = "update_States"
    /\ current_state = 14
    /\ state = 15

----------------------------------------------------------------------------
(* C2 *)

\* C2: conservation - at each concentration point (the first and every later
\* one), once all n_SERCA_Molecules molecules have been simulated, the counts
\* of every recorded bin summed over the states equal n_SERCA_Molecules.
C2_Conservation ==
    (pc = "rr_loop" /\ rr = n_SERCA_Molecules) =>
        \A b \in RecordedBins : BinTotal(hist, b) = n_SERCA_Molecules

----------------------------------------------------------------------------
(* C3 *)

\* C3: for every state of every engine, states 10, 11 and 12 included, the
\* thresholds are the cumulative sums of the edge terms in the order of the
\* code: edge j is taken exactly when p_(j-1) <= randNum < p_j, and the state
\* is kept when randNum is not below the last threshold.
C3_CumulativeThresholds ==
    op = "update_States" =>
        state = Pick(current_state, randNum,
                     Cumulative(Terms(engine, current_state, rates, conc, dt)),
                     Targets(engine, current_state))

----------------------------------------------------------------------------
(* C4 *)

\* the sum over the points of (ref[i] - raw[i]/max)^2
RECURSIVE SumSqDiff(_, _, _)
SumSqDiff(raw, max, i) ==
    IF i = 0 THEN Zero
    ELSE FAdd(SumSqDiff(raw, max, i - 1),
              FSq(FSub(RefCurve[i], FDiv(Value(raw[i]), Value(max)))))

\* C4: the residual returned by get_Residual and by get_Residual_Pi is
\* sqrt(sum_i (ref[i] - raw[i]/max)^2): each raw point is divided by the
\* tracked maximum exactly once.  (residual holds the radicand.)
C4_ResidualIdentity ==
    (pc = "done" /\ variant # "lastRun") =>
        residual = SumSqDiff(ss_bound_Ca, boundSS_max_temp, n_pCa)

----------------------------------------------------------------------------
(* C9 *)

\* C9: when at least one raw point is positive, after the division by the
\* tracked maximum the largest normalised element is exactly 1 and every
\* element lies in [0, 1] (get_Residual, get_Residual_Pi, lastRun).
C9_NormalisedInUnitInterval ==
    (pc \in {"residual", "done"} /\ \E i \in 1..n_pCa : ss_bound_Ca[i] > 0) =>
        /\ \E i \in 1..n_pCa : norm_ss_bound[i] = One
        /\ \A i \in 1..n_pCa : FLeq(Zero, norm_ss_bound[i]) /\ FLeq(norm_ss_bound[i], One)

----------------------------------------------------------------------------
(* C10 *)

\* C10: the returned residual is >= 0, and it is exactly 0 when the
\* max-normalised curve equals the reference curve (get_Residual,
\* get_Residual_Pi and the four-parameter get_Residual).
C10_ResidualNonNegativeAndZero ==
    (pc = "done" /\ variant # "lastRun") =>
        /\ FLeq(Zero, residual)
        /\ (norm_ss_bound = RefCurve => residual = Zero)

----------------------------------------------------------------------------
(* C5 *)

\* C5: across Init and every swarm iteration the stored global-best residual
\* never increases: once declared, every step leaves Res_gbest as it is or
\* lowers it (serial main and MPI main).
C5_GbestNeverIncreases ==
    [][pc # "seed_gbest" => (Res_gbest' = Res_gbest \/ FLt(Res_gbest', Res_gbest))]_vars

\* the serial main has ended and the second iteration has lowered the global best
C5_Witness ==
    /\ main = "serial"
    /\ pc = "done"
    /\ FLt(total_gbest[1], total_gbest[0])

----------------------------------------------------------------------------
(* C6 *)

\* the first element of a sequence of residuals, lowered by every later
\* element that is smaller
RECURSIVE SeqMinFrom(_, _, _)
SeqMinFrom(q, m, j) ==
    IF j > Len(q) THEN m
    ELSE SeqMinFrom(q, IF FLt(q[j], m) THEN q[j] ELSE m, j + 1)

SeqMin(q) == SeqMinFrom(q, q[1], 2)

\* the initial residuals of the swarm, as a sequence
InitialResiduals == [j \in 1..n_particles_PSO |-> evals[j - 1][1]]

\* C6: after Init, for every particle the personal-best residual and position
\* are its initial residual and position, and the global-best residual is the
\* minimum over the n_particles_PSO initial evaluations, held by the particle
\* whose position is the global-best position (serial main and every rank of
\* the MPI main).
C6_InitialBests ==
    (pc = "iter_head" /\ it = 0) =>
        /\ \A i \in Particles : Res_pbest[i] = evals[i][1] /\ X_pbest[i] = X[i]
        /\ Res_gbest = SeqMin(InitialResiduals)
        /\ \E i \in Particles : evals[i][1] = Res_gbest /\ X_gbest = X[i]

----------------------------------------------------------------------------
(* C7 *)

\* C7: after each iteration Res_pbest[i] is the minimum of all the residuals
\* evaluated so far for particle i (the personal best is replaced exactly
\* when the new residual is <= Res_pbest[i]).
C7_PbestIsRunningMinimum ==
    (pc = "iter_head" /\ it >= 1) =>
        \A i \in Particles : Res_pbest[i] = SeqMin(evals[i])

----------------------------------------------------------------------------
(* C8 *)

\* C8: in the serial main, while the particles of an iteration are moved and
\* evaluated the global best and every personal best stay unchanged; the
\* global best is replaced only by the step that follows the evaluation of
\* all n_particles_PSO particles of the iteration, which is taken once per
\* iteration, and only when the minimum residual of the iteration is <= the
\* current Res_gbest.
C8_BestsFrozenWhileMoving ==
    [][main = "serial" =>
        /\ pc = "move" => UNCHANGED <<Res_gbest, X_gbest, Res_pbest, X_pbest>>
        /\ (pc \in {"iter_head", "move", "update_gbest", "update_pbest"}
              /\ <<Res_gbest, X_gbest>>' # <<Res_gbest, X_gbest>>) =>
                /\ pc = "update_gbest"
                /\ \A i \in Particles : Len(evals[i]) = it + 2
                /\ FLeq(MinRes(residual_cost_func)[1], Res_gbest)
                /\ Res_gbest' = MinRes(residual_cost_func)[1]
        /\ pc' = "update_gbest" =>
                /\ pc = "move"
                /\ \A i \in Particles : Len(evals'[i]) = it + 2
        /\ pc = "update_gbest" => pc' = "update_pbest" /\ it' = it
        /\ pc = "update_pbest" => it' = it + 1
    ]_vars

\* the first iteration of the serial main has replaced a global best of 1 by 0
C8_Witness ==
    /\ main = "serial"
    /\ op = "update_gbest"
    /\ it = 0
    /\ \A i \in Particles : evals[i][1] = One
    /\ Res_gbest = Zero

----------------------------------------------------------------------------
(* C11 *)

\* C11: for every state and every concentration point, the steady-state
\* occupation fraction of get_Residual (the trailing-window sum of the state's
\* histogram, divided by n_SERCA_Molecules and by the window length) lies in
\* [0, 1].  SteadyState is the fraction in units of 1/RawUnit.
C11_SteadyStateFraction ==
    (pc = "rr_loop" /\ rr = n_SERCA_Molecules) =>
        \A s \in States13 : SteadyState(hist, s) \in 0..RawUnit

----------------------------------------------------------------------------
(* C12 *)

\* the rate table that lastRun receives when main calls it with the table k of
\* the 13-state model: the parameters are bound by position
lastRunRates(k) ==
    [ k_S0_S1   |-> k.k_S0_S1,   k_S2_S3   |-> k.k_S2_S3,
      k_S7_S9   |-> k.k_S7_S8,   k_S10_S11 |-> k.k_S9_S10,
      k_S1_S0   |-> k.k_S1_S0,   k_S1_S2   |-> k.k_S1_S2,
      k_S2_S1   |-> k.k_S2_S1,   k_S3_S2   |-> k.k_S3_S2,
      k_S3_S4   |-> k.k_S3_S4,   k_S4_S3   |-> k.k_S4_S3,
      k_S4_S5   |-> k.k_S4_S5,   k_S5_S4   |-> k.k_S5_S4,
      k_S5_S6   |-> k.k_S5_S6a,  k_S6_S5   |-> k.k_S6a_S5,
      k_S6_S7   |-> k.k_S6a_S7,  k_S7_S6   |-> k.k_S7_S6a,
      k_S5_S8   |-> k.k_S5_S6,   k_S8_S5   |-> k.k_S6_S5,
      k_S8_S7   |-> k.k_S6_S7,   k_S7_S8   |-> k.k_S7_S6,
      k_S9_S7   |-> k.k_S8_S7,   k_S9_S10  |-> k.k_S8_S9,
      k_S10_S9  |-> k.k_S9_S8,   k_S11_S10 |-> k.k_S10_S9,
      k_S11_S12 |-> k.k_S10_S11, k_S12_S11 |-> k.k_S11_S10,
      k_S12_S0  |-> k.k_S11_S0,  k_S0_S12  |-> k.k_S0_S11 ]

\* C12: for every state, every random draw and every rate table and
\* environment, the inline transition step of lastRun, given the table main
\* passes to it, produces the same next state as update_States of the
\* 13-state model (same edges, same order, same targets, same probability
\* terms, the concentration factors included).
C12_LastRunSameStep ==
    (engine = "update_States13" /\ op = "update_States") =>
        state = lastRunStep(current_state, randNum, lastRunRates(rates), conc, dt)

----------------------------------------------------------------------------
(* SpecOcc: the weighted sum of the steady-state occupancies, for            *)
(* get_Residual and for lastRun, over enumerated occupancies                 *)

\* the histograms left by n_SERCA_Molecules = 2 molecules that sit in states
\* a and b at every recorded step
OccHist(a, b) ==
    [s \in States13 |->
        [bin \in 0..(HistSize - 1) |->
            (IF s = a THEN 1 ELSE 0) + (IF s = b THEN 1 ELSE 0)]]

OccupancyHists == {OccHist(a, b) : a \in States13, b \in States13}

InitOcc ==
    /\ engine \in {"update_States13", "lastRun"}
    /\ state = 0
    /\ current_state = 0
    /\ randNum = 0
    /\ rates = RateTable(1, 1, 1)
    /\ conc = [Ca_cyt_conc |-> 1, Ca_sr_conc |-> 1, Pi_conc |-> 1,
               MgATP_conc |-> 1, MgADP_conc |-> 1]
    /\ dt = 1
    /\ op = "init"
    /\ pc = "rr_loop"
    /\ cal = 0
    /\ rr = n_SERCA_Molecules
    /\ n = max_tsteps
    /\ output_count = OutputCountInit
    /\ hist \in OccupancyHists
    /\ ss_bound_Ca = <<>>
    /\ boundSS_max_temp = 0
    /\ variant = IF engine = "lastRun" THEN "lastRun" ELSE "get_Residual"
    /\ norm_ss_bound = <<>>
    /\ residual = Zero
    /\ IdlePSO
    /\ IdleWin

\* the molecules of the next concentration point have been simulated: the
\* histograms hold their occupancies
SimulatedPoint ==
    /\ pc = "cal_loop"
    /\ cal < n_pCa
    /\ hist' \in OccupancyHists
    /\ rr' = n_SERCA_Molecules
    /\ pc' = "rr_loop"
    /\ op' = "simulated_point"
    /\ UNCHANGED <<smVars, cal, n, output_count, ss_bound_Ca, boundSS_max_temp,
                   resVars, psoVars, winVars>>

NextOcc == SimulatedPoint \/ Average \/ EndPoints

SpecOcc == InitOcc /\ [][NextOcc]_vars

----------------------------------------------------------------------------
(* C13 *)

\* C13: for the same per-state steady-state occupancies, the raw
\* bound-calcium value of lastRun equals that of get_Residual: every state
\* 0..12 carries the same weight (0, 1 or 2 bound calcium ions) in both sums.
C13_SameBoundCalcium ==
    (op = "average" /\ variant = "lastRun") =>
        ss_bound_Ca[Len(ss_bound_Ca)] = BoundCa(hist)

----------------------------------------------------------------------------
(* C14 *)

\* C14: at every all-reduce of the MPI main (after Init and after every
\* swarm iteration) the local position buffer of the worker is zero at every
\* particle index outside its own range [start, end), so that the sum over
\* the workers is the position computed by the one worker that owns the
\* particle.
C14_LocalBufferZeroOutsideRange ==
    (main = "mpi" /\ pc \in {"init_reduce", "reduce"}) =>
        \A i \in Particles : ~Owned(i) => X_local[i] = Zero

----------------------------------------------------------------------------
(* C15 *)

\* residual_cost_func on rank q of the MPI main after Step 2: the residuals of
\* the particles of its own range, and the zero of the global array elsewhere
RankResiduals(q) ==
    [i \in Particles |->
        IF Start("mpi", q, nproc) <= i /\ i < End("mpi", q, nproc)
        THEN evals[i][1] ELSE Zero]

\* Res_gbest on rank q of the MPI main after Init:
\* float Res_gbest = residual_cost_func[0]; for (i = start; i < end; i++) ...
RankGbestAfterInit(q) ==
    ScanMin(RankResiduals(q), RankResiduals(q)[0], 0,
            Start("mpi", q, nproc), End("mpi", q, nproc))[1]

\* C15: in the MPI main all workers hold the same global-best residual and
\* position, computed from the residuals of all n_particles_PSO particles and
\* not only from those the worker evaluated itself.  Stated at the end of
\* Init: the global best of this worker is the global best of every other
\* worker and the minimum of the initial residuals of all particles.
C15_WorkersAgreeOnGbest ==
    (main = "mpi" /\ pc = "iter_head" /\ it = 0) =>
        /\ \A q \in 0..(nproc - 1) : RankGbestAfterInit(q) = Res_gbest
        /\ Res_gbest = SeqMin(InitialResiduals)

----------------------------------------------------------------------------
(* C16 *)

----------------------------------------------------------------------------
(* SpecPart: the split of the particles over the processes of the MPI main  *)

\* largest number of particles that is split
MaxParticles == 6
\* largest number of processes
MaxWorkers == 6

InitPart ==
    /\ engine = "none"
    /\ state = 0
    /\ current_state = 0
    /\ randNum = 0
    /\ rates = RateTable(1, 1, 1)
    /\ conc = [Ca_cyt_conc |-> 1, Ca_sr_conc |-> 1, Pi_conc |-> 1,
               MgATP_conc |-> 1, MgADP_conc |-> 1]
    /\ dt = 1
    /\ op = "init"
    /\ IdleSim
    /\ IdleRes
    /\ main = "mpi"
    /\ id = 0
    /\ nproc \in 1..MaxWorkers
    /\ n_particles \in 1..MaxParticles
    /\ ranged = {}
    /\ owned = {}
    /\ IdleWin
    /\ X = ZeroArray
    /\ X_local = ZeroArray
    /\ V = ZeroArray
    /\ residual_cost_func = ZeroArray
    /\ Res_pbest = ZeroArray
    /\ X_pbest = ZeroArray
    /\ Res_gbest = Unset
    /\ X_gbest = Zero
    /\ i_best = 0
    /\ it = 0
    /\ w = Zero
    /\ ip = 0
    /\ total_gbest = <<>>
    /\ evals = [i \in Particles |-> <<>>]

\* rank k computes start and end: it owns the particles start .. end - 1
ComputeRange ==
    /\ \E k \in (0..(nproc - 1)) \ ranged :
         /\ id' = k
         /\ ranged' = ranged \cup {k}
         /\ owned' = owned \cup
               {<<k, i>> : i \in RangeStart(k, n_particles, nproc)
                                 .. (RangeEnd(k, n_particles, nproc) - 1)}
    /\ op' = "compute_range"
    /\ UNCHANGED <<smVars, simVars, resVars, main, nproc, n_particles, winVars, X, X_local, V,
                   residual_cost_func, Res_pbest, X_pbest, Res_gbest, X_gbest, i_best,
                   it, w, ip, total_gbest, evals>>

NextPart == ComputeRange

SpecPart == InitPart /\ [][NextPart]_vars

----------------------------------------------------------------------------
(* C17 *)

\* C17: for every number of particles P >= 1 and of workers W >= 1 the ranges
\* [k*P/W, (k+1)*P/W) of the workers k = 0..W-1 (integer division) are
\* pairwise disjoint and their union is exactly 0..P-1: no two ranks own the
\* same particle, no rank owns an index outside 0..P-1, and once every rank
\* has computed its range every particle has an owner.
C17_RangesPartitionParticles ==
    /\ \A a \in owned, b \in owned : a[2] = b[2] => a[1] = b[1]
    /\ \A a \in owned : a[2] \in 0..(n_particles - 1)
    /\ (op = "compute_range" /\ ranged = 0..(nproc - 1)) =>
          \A i \in 0..(n_particles - 1) : \E k \in ranged : <<k, i>> \in owned

\* five particles have been split over three processes: [0,1), [1,3), [3,5)
C17_Witness ==
    /\ op = "compute_range"
    /\ n_particles = 5
    /\ nproc = 3
    /\ ranged = 0..2
    /\ owned = {<<0, 0>>, <<1, 1>>, <<1, 2>>, <<2, 3>>, <<2, 4>>}

----------------------------------------------------------------------------
(* C18 *)

\* C18: the inertia weight w of iteration it decreases linearly with it: it
\* is w_max (1.0) in the first iteration, w_min (0.3) in the last one, and
\* w_max - it * dw in between, so it never increases from one iteration to
\* the next.
C18_InertiaDecreases ==
    op = "begin_iteration" =>
        /\ w = FSub(w_max, FMul(Frac(it, 1), dw))
        /\ it = 0 => w = w_max
        /\ it = max_iter => w = w_min

----------------------------------------------------------------------------
(* C19 *)

\* C19: the optimizer runs exactly max_iter swarm iterations whatever the
\* residuals are, with no early stop and no extra iteration: when the main
\* has left the iteration loop, max_iter iterations have been run, and every
\* particle has been evaluated once in Init and once in each of them.
C19_ExactlyMaxIterIterations ==
    pc = "done" =>
        /\ it = max_iter
        /\ \A i \in Particles : Len(evals[i]) = max_iter + 1

----------------------------------------------------------------------------
(* C20 *)

\* C20: when every raw curve point is zero (the tracked maximum is 0) the
\* evaluator reports a numerical-degeneracy error instead of dividing by
\* zero: it neither normalises the curve nor returns a residual, so no NaN
\* is produced.
C20_DegenerateCurveIsAnError ==
    ( /\ variant \in {"get_Residual", "get_Residual_Pi", "get_Residual_4"}
      /\ Len(ss_bound_Ca) = n_pCa
      /\ \A i \in 1..n_pCa : ss_bound_Ca[i] = 0
      /\ boundSS_max_temp = 0 ) =>
        /\ op \notin {"normalise", "residual"}
        /\ \A i \in 1..Len(norm_ss_bound) : norm_ss_bound[i] # NaN
        /\ residual # NaN

----------------------------------------------------------------------------
(* SpecWin: the sampling steps of one molecule and the steps of the         *)
(* averaging loop, for the timestep counts 1..MaxTsteps                     *)

\* largest timestep count passed to the evaluator
MaxTsteps == 14

\* the step indices of the averaging loop:
\* for (int n = max_tsteps-10000; n < max_tsteps-1; n++)
WindowSteps(T) == [j \in 1..(Window - 1) |-> T - Window + j - 1]

InitWin ==
    /\ engine = "update_States13"
    /\ state = 0
    /\ current_state = 0
    /\ randNum = 0
    /\ rates = RateTable(1, 1, 1)
    /\ conc = [Ca_cyt_conc |-> 1, Ca_sr_conc |-> 1, Pi_conc |-> 1,
               MgATP_conc |-> 1, MgADP_conc |-> 1]
    /\ dt = 1
    /\ op = "start"
    /\ pc = "n_loop"
    /\ cal = 0
    /\ rr = 0
    /\ n = 0
    /\ output_count = OutputCountInit
    /\ hist = ZeroHist
    /\ ss_bound_Ca = <<>>
    /\ boundSS_max_temp = 0
    /\ variant = "get_Residual"
    /\ norm_ss_bound = <<>>
    /\ residual = Zero
    /\ IdlePSO
    /\ tsteps \in 1..MaxTsteps
    /\ written = <<>>
    /\ steps_read = <<>>
    /\ n_cond = n_pCa
    /\ grid_reads = <<>>
    /\ rand_events = <<>>

\* one pass of the time loop: the sample, if one is due, and the counter
SampleStep ==
    /\ pc = "n_loop"
    /\ n < tsteps
    /\ written' = IF output_count = save_jump
                  THEN Append(written, CDiv(n, save_jump)) ELSE written
    /\ output_count' = NextOutputCount(output_count)
    /\ n' = n + 1
    /\ op' = "sample_step"
    /\ UNCHANGED <<smVars, pc, cal, rr, hist, ss_bound_Ca, boundSS_max_temp,
                   resVars, psoVars, tsteps, steps_read, gridVars, seedVars>>

\* the time loop has ended: the averaging loop reads S[n/save_jump] for each of
\* its steps
WindowLoop ==
    /\ pc = "n_loop"
    /\ n = tsteps
    /\ steps_read' = WindowSteps(tsteps)
    /\ pc' = "averaged"
    /\ op' = "average"
    /\ UNCHANGED <<smVars, cal, rr, n, output_count, hist, ss_bound_Ca, boundSS_max_temp,
                   resVars, psoVars, tsteps, written, gridVars, seedVars>>

NextWin == SampleStep \/ WindowLoop

SpecWin == InitWin /\ [][NextWin]_vars

----------------------------------------------------------------------------
(* C21 *)

\* C21: when the timestep count is too small for the trailing window (the
\* first step index of the window is negative) the simulator fails before
\* averaging: the averaging loop is not run, and no histogram bin is read
\* for a step index before the start of the histogram.
C21_ShortRunIsAnError ==
    tsteps < Window =>
        /\ op # "average"
        /\ \A j \in 1..Len(steps_read) : steps_read[j] >= 0

----------------------------------------------------------------------------
(* C22 *)

\* C22: a residual that is NaN or infinite is never stored as Res_gbest or
\* as a Res_pbest[i], and is never the iteration minimum min_Res while some
\* particle has a finite residual - also when it is the residual of particle
\* 0, which seeds Res_gbest in Init and min_Res in every iteration.
C22_FailedEvaluationKeptOut ==
    /\ Res_gbest # Unset => IsFinite(Res_gbest)
    /\ \A i \in Particles : IsFinite(Res_pbest[i])
    /\ (op = "update_gbest" /\ \E i \in Particles : IsFinite(residual_cost_func[i]))
          => IsFinite(MinRes(residual_cost_func)[1])

----------------------------------------------------------------------------
(* SpecGrid: the reads of the built-in condition grid and reference curve,  *)
(* for the condition counts 0..MaxCond                                      *)

\* largest number of conditions passed to the evaluator
MaxCond == 8
\* float calConc[16], float norm_bound_Ca_Exp[16] (scaled)
GridLenCa == 3
\* float piConc[13], float norm_phosphorylated_Exp[13] (scaled)
GridLenPi == 2

\* the length of the tables built into evaluator v
GridLength(v) == IF v = "get_Residual_Pi" THEN GridLenPi ELSE GridLenCa

InitGrid ==
    /\ engine = "update_States13"
    /\ state = 0
    /\ current_state = 0
    /\ randNum = 0
    /\ rates = RateTable(1, 1, 1)
    /\ conc = [Ca_cyt_conc |-> 1, Ca_sr_conc |-> 1, Pi_conc |-> 1,
               MgATP_conc |-> 1, MgADP_conc |-> 1]
    /\ dt = 1
    /\ op = "init"
    /\ pc = "cal_loop"
    /\ cal = 0
    /\ rr = 0
    /\ n = 0
    /\ output_count = 0
    /\ hist = ZeroHist
    /\ ss_bound_Ca = <<>>
    /\ boundSS_max_temp = 0
    /\ variant \in {"get_Residual", "get_Residual_Pi"}
    /\ norm_ss_bound = <<>>
    /\ residual = Zero
    /\ IdlePSO
    /\ tsteps = max_tsteps
    /\ written = <<>>
    /\ steps_read = <<>>
    /\ n_cond \in 0..MaxCond
    /\ grid_reads = <<>>
    /\ rand_events = <<>>

\* one pass of the loop over the conditions: Ca_cyt_conc = calConc[cal]
\* (Pi_conc_Pi = piConc[pi]), then the molecules of the point are simulated
GridPoint ==
    /\ pc = "cal_loop"
    /\ cal < n_cond
    /\ grid_reads' = Append(grid_reads, <<"grid", cal>>)
    /\ cal' = cal + 1
    /\ op' = "begin_point"
    /\ UNCHANGED <<smVars, pc, rr, n, output_count, hist, ss_bound_Ca, boundSS_max_temp,
                   resVars, psoVars, tsteps, written, steps_read, n_cond, seedVars>>

\* the loop over the conditions ends; the curve is normalised and the loop
\* over cc starts
GridNormalise ==
    /\ pc = "cal_loop"
    /\ cal = n_cond
    /\ cal' = 0
    /\ pc' = "residual"
    /\ op' = "normalise"
    /\ UNCHANGED <<smVars, rr, n, output_count, hist, ss_bound_Ca, boundSS_max_temp,
                   resVars, psoVars, winVars>>

\* one pass of the residual loop (cal holds cc): it reads norm_bound_Ca_Exp[cc]
RefPoint ==
    /\ pc = "residual"
    /\ cal < n_cond
    /\ grid_reads' = Append(grid_reads, <<"reference", cal>>)
    /\ cal' = cal + 1
    /\ op' = "residual_term"
    /\ UNCHANGED <<smVars, pc, rr, n, output_count, hist, ss_bound_Ca, boundSS_max_temp,
                   resVars, psoVars, tsteps, written, steps_read, n_cond, seedVars>>

\* the residual is returned
GridReturn ==
    /\ pc = "residual"
    /\ cal = n_cond
    /\ pc' = "done"
    /\ op' = "residual"
    /\ UNCHANGED <<smVars, cal, rr, n, output_count, hist, ss_bound_Ca, boundSS_max_temp,
                   resVars, psoVars, winVars>>

NextGrid == GridPoint \/ GridNormalise \/ RefPoint \/ GridReturn

SpecGrid == InitGrid /\ [][NextGrid]_vars

----------------------------------------------------------------------------
(* C23 *)

\* C23: a run whose number of conditions differs from the length of the
\* built-in grid and reference curve is rejected before any simulation, and
\* the evaluator never reads the grid or the reference curve at an index >=
\* their length.
C23_GridLengthChecked ==
    /\ n_cond # GridLength(variant) => grid_reads = <<>>
    /\ \A j \in 1..Len(grid_reads) : grid_reads[j][2] < GridLength(variant)


----------------------------------------------------------------------------
(* Connectivity of the transition graph *)

\* one call of update_States of the 13-state or of the 16-state model
StepOf(e, s, u, k, c, d) ==
    IF e = "update_States16" THEN update_States16(s, u, k, c, d)
    ELSE update_States13(s, u, k, c, d)

\* the states that some draw moves a molecule in state s to
Successors(e, s, k, c, d) ==
    {StepOf(e, s, u, k, c, d) : u \in 0..RandMax} \ {s}

\* the states a molecule can be brought to from the states of R; F holds the
\* states of R whose edges have not been followed yet
RECURSIVE ReachFrom(_, _, _, _, _, _)
ReachFrom(e, R, F, k, c, d) ==
    LET new == UNION {Successors(e, s, k, c, d) : s \in F} \ R
    IN  IF new = {} THEN R ELSE ReachFrom(e, R \cup new, new, k, c, d)

----------------------------------------------------------------------------
(* Frame of update_States *)

\* the states named by the branches of state s
TargetSet(e, s) == {Targets(e, s)[j] : j \in 1..Len(Targets(e, s))}

----------------------------------------------------------------------------
(* The sampling of the histograms *)

\* C26: in the time loop of a molecule the histograms are updated exactly at
\* the steps where the one counter output_count has reached save_jump, which
\* happens once every save_jump steps whatever the state is; an update adds 1
\* to one bin of one array, the array of the molecule's state, and the k-th
\* update of a molecule lands in bin k - 1, so that no bin is hit twice or
\* skipped by the same molecule.
C26_OneUpdatePerSaveJump ==
    [][op' = "update_States" =>
          LET b == CDiv(n, save_jump) IN
          /\ (hist' # hist) <=> (output_count = save_jump)
          /\ (output_count = save_jump) <=> ((n + OutputCountInit) % save_jump = 0)
          /\ output_count = save_jump =>
                /\ \A s \in States13 : \A c \in 0..(HistSize - 1) :
                      hist'[s][c] = hist[s][c] + (IF s = state' /\ c = b THEN 1 ELSE 0)
                /\ b = ((n + OutputCountInit) \div save_jump) - 1]_vars

\* the first molecule of the first point has just been recorded for the
\* second time, in bin 1
C26_Witness ==
    /\ op = "update_States"
    /\ cal = 0
    /\ rr = 0
    /\ n = 2 * save_jump - OutputCountInit + 1
    /\ output_count = 1
    /\ hist[state][1] >= 1


\* C27: for every number of timesteps that is at least the window length,
\* every bin that the averaging loop reads was incremented exactly once by the
\* molecule during its time loop: the window never reads a bin that no
\* sampling step wrote.
C27_WindowReadsWrittenBins ==
    (op = "average" /\ tsteps >= Window) =>
        \A j \in 1..Len(steps_read) :
            Cardinality({i \in 1..Len(written) :
                            written[i] = CDiv(steps_read[j], save_jump)}) = 1


----------------------------------------------------------------------------
(* The wiring of single edges *)

\* the rate constants of the three edges of state 5, as the p1, p2 and p3
\* lines name them: the forward edge, the edge back to S4, the edge to index 8
State5First(e, k)  == IF e = "lastRun" THEN k.k_S5_S6 ELSE k.k_S5_S6a
State5ToS4(e, k)   == k.k_S5_S4
State5ToS8(e, k)   == IF e = "lastRun" THEN k.k_S5_S8 ELSE k.k_S5_S6

\* C28: for a molecule in state 5, a draw that falls into the interval whose
\* width is k_S5_S4 * dt moves it to state 4, and a draw that falls into the
\* interval whose width is k_S5_S6 * dt (k_S5_S8 * dt in lastRun) moves it to
\* state 8, as the comments on the p2 and p3 lines say.
C28_State5RateMatchesTarget ==
    (op = "update_States" /\ current_state = 5) =>
        LET a == State5First(engine, rates) * dt
            b == State5ToS4(engine, rates) * dt
            c == State5ToS8(engine, rates) * dt
        IN  /\ (a <= randNum /\ randNum < a + b) => state = 4
            /\ (a + b <= randNum /\ randNum < a + b + c) => state = 8


\* index of S3a in the 16-state model (state 4's branch and state 14's branch
\* that the comments label S3a assign it)
S3a == 15

\* C29: in the 16-state model the third branch of state 2, whose term is
\* k_S2_S3a * MgATP_conc * dt, moves the molecule to S3a (index 15), the state
\* that the third branch of state 4 and the first branch of state 14 move to.
C29_State2ThirdBranchEntersS3a ==
    (engine = "update_States16" /\ op = "update_States") =>
        LET p == Thresholds16(current_state, rates, conc, dt) IN
        /\ (current_state = 2 /\ p[2] <= randNum /\ randNum < p[3]) => state = S3a
        /\ (current_state = 4 /\ p[2] <= randNum /\ randNum < p[3]) => state = S3a
        /\ (current_state = 14 /\ randNum < p[1]) => state = S3a


\* C30: one call of update_States moves the molecule along at most one edge:
\* the state after the call is the state before it or a state that a branch
\* of the state before it names.  This holds in the 16-state model too, where
\* the blocks of states 0, 13, 14 and 15 are separate if-statements: a
\* molecule that has just entered state 13, 14 or 15 is not moved again.
C30_AtMostOneEdgePerCall ==
    op = "update_States" =>
        state \in {current_state} \cup TargetSet(engine, current_state)

\* a molecule of the 16-state model has entered S2a from state 1 with a draw
\* that is below the last threshold of S2a, and it has stayed in S2a
C30_Witness ==
    /\ engine = "update_States16"
    /\ op = "update_States"
    /\ current_state = 1
    /\ state = 14
    /\ randNum < Thresholds16(14, rates, conc, dt)[3]


----------------------------------------------------------------------------
(* The move of a particle *)

\* C31: in every iteration of the serial optimizer the new velocity of the
\* moved particle is w*v + c1*r1*(pbest - x) + c2*r2*(gbest - x) for two draws
\* r1, r2, computed from the position x before the move, and the new position
\* is exactly x plus the new velocity: nothing clamps it to [lower, upper], so
\* a position outside the bounds is evaluated as it is.
C31_MoveIsUnclamped ==
    [][(main = "serial" /\ op' = "move") =>
          /\ \E r1 \in UnitDraws, r2 \in UnitDraws :
                V'[ip] = FAdd(FAdd(FMul(w, V[ip]),
                                   FMul(FMul(c1, r1), FSub(X_pbest[ip], X[ip]))),
                              FMul(FMul(c2, r2), FSub(X_gbest, X[ip])))
          /\ X'[ip] = FAdd(X[ip], V'[ip])
          /\ \A i \in Particles \ {ip} : X'[i] = X[i] /\ V'[i] = V[i]
          /\ Len(evals'[ip]) = Len(evals[ip]) + 1]_vars

\* a particle of the serial optimizer has been moved to a negative rate
\* constant, below the lower bound, and evaluated there
C31_Witness ==
    /\ main = "serial"
    /\ op = "move"
    /\ \E i \in Particles :
          /\ IsFinite(X[i])
          /\ FLt(X[i], Zero)
          /\ Len(evals[i]) >= 2


----------------------------------------------------------------------------
(* The size of the probabilities with the values of main                    *)
(*                                                                          *)
(* Fixed point: a probability is a multiple of 1e-9, dt = 1 stands for      *)
(* 1e-7 s, a concentration is a multiple of 1e-8 M rounded up, a rate that  *)
(* the 13-state model multiplies by dt alone is k * 100, and a rate that it *)
(* multiplies by a concentration is k * 1e-6 rounded up, so that every term *)
(* of the model is at least the term of the program.                        *)

\* 1.0 in units of 1e-9
ProbOne == 1000000000

\* float calConc[16], in units of 1e-8 M, rounded up
calConcGrid == <<12, 15, 19, 24, 29, 34, 39, 45, 52, 61, 71, 85, 99, 121, 147, 193>>

\* Cofactors with MgATP_conc = 0.2 M instead of 5e-3 M
CofactorsHighATP ==
    [Ca_sr_conc |-> 130000, MgATP_conc |-> 20000000, MgADP_conc |-> 3600, Pi_conc |-> 100000]

\* Ca_sr_conc = 1.3e-3; MgATP_conc = 5e-3; MgADP_conc = 36e-6; Pi_conc = 1e-3
Cofactors ==
    [Ca_sr_conc |-> 130000, MgATP_conc |-> 500000, MgADP_conc |-> 3600, Pi_conc |-> 100000]

\* k_lower = 0.1 * k, k, k_upper = 10 * k for a fitted rate whose reference
\* value is ten times k10
FittedValues(k10) == {k10, 10 * k10, 100 * k10}

\* the rate constants of main: the four fitted rates take the values a, b, c, d
\* and the others their reference value
MainRates(a, b, c, d) ==
    [k_S0_S1   |-> a,     k_S0_S11  |-> 1,
     k_S1_S2   |-> 12000, k_S1_S0   |-> 45000,
     k_S2_S3   |-> b,     k_S2_S1   |-> 2500,
     k_S3_S4   |-> 60,    k_S3_S2   |-> 1600,
     k_S4_S5   |-> 20000, k_S4_S3   |-> 3000,
     k_S5_S6a  |-> 80000, k_S5_S4   |-> 35000, k_S5_S6 |-> 600,
     k_S6a_S7  |-> 50000, k_S6a_S5  |-> 20000,
     k_S7_S8   |-> c,     k_S7_S6a  |-> 4,     k_S7_S6 |-> 1000,
     k_S6_S7   |-> 100,   k_S6_S5   |-> 1,
     k_S8_S9   |-> 2000,  k_S8_S7   |-> 1,
     k_S9_S10  |-> d,     k_S9_S8   |-> 2000,
     k_S10_S11 |-> 6000,  k_S10_S9  |-> 1,
     k_S11_S0  |-> 60000, k_S11_S10 |-> 6000]

\* the concentrations of point i of the calcium grid
MainConc(i) ==
    [Ca_cyt_conc |-> calConcGrid[i + 1], Ca_sr_conc |-> Cofactors.Ca_sr_conc,
     Pi_conc |-> Cofactors.Pi_conc, MgATP_conc |-> Cofactors.MgATP_conc,
     MgADP_conc |-> Cofactors.MgADP_conc]

\* the sum of the terms of the edges that leave state s
LeavingProbability(s, k, c, d) ==
    LET t == Terms13(s, k, c, d)
    IN  IF Len(t) = 2 THEN t[1] + t[2] ELSE t[1] + t[2] + t[3]

\* one draw for each interval that the thresholds of state s cut [0,1] into
IntervalDraws(s, k, c, d) ==
    {0, ProbOne} \cup {Thresholds13(s, k, c, d)[j] : j \in 1..Len(Thresholds13(s, k, c, d))}

InitProb ==
    /\ engine = "update_States13"
    /\ state = 0
    /\ current_state = 0
    /\ randNum = 0
    /\ \E a \in FittedValues(4), b \in FittedValues(10),
          c \in FittedValues(5000), d \in FittedValues(6000) :
          rates = MainRates(a, b, c, d)
    /\ \E i \in 0..(Len(calConcGrid) - 1) : conc = MainConc(i)
    /\ dt = 1
    /\ op = "init"
    /\ IdleSim
    /\ IdleRes
    /\ IdlePSO
    /\ IdleWin

\* one call of update_States with the values of main
CallWithMainValues ==
    /\ \E u \in IntervalDraws(state, rates, conc, dt) :
         /\ randNum' = u
         /\ current_state' = state
         /\ state' = update_States13(state, u, rates, conc, dt)
    /\ op' = "update_States"
    /\ UNCHANGED <<engine, rates, conc, dt, simVars, resVars, psoVars, winVars>>

NextProb == CallWithMainValues

SpecProb == InitProb /\ [][NextProb]_vars

\* C32: with dt = 1e-7, the reference rates, the fixed cofactor
\* concentrations, the four fitted rates anywhere between their lower and
\* their upper bound and every point of the calcium grid, the probabilities
\* of the edges that leave a state add up to less than 1, for every state.
C32_LeavingProbabilityBelowOne ==
    \A s \in States13 : LeavingProbability(s, rates, conc, dt) < ProbOne

\* a molecule has reached S3, the state with the largest leaving probability,
\* with the four fitted rates at their upper bounds and the largest calcium
\* concentration of the grid
C32_Witness ==
    /\ op = "update_States"
    /\ state = 3
    /\ rates = MainRates(400, 1000, 500000, 600000)
    /\ conc = MainConc(15)


----------------------------------------------------------------------------
(* The seeding of the random generator over a program run                   *)
(*                                                                          *)
(* main seeds the generator, draws the initial positions and velocities and *)
(* calls the evaluator for each particle; the evaluator loops over the      *)
(* concentration points, the molecules and the timesteps, with one draw per *)
(* timestep.  The evaluator is get_Residual of src/get_Residual.cpp or the  *)
(* get_Residual of src/unnamed/part_000 ("get_Residual_4").                 *)

psoRest == <<main, id, nproc, partVars, X, X_local, V, residual_cost_func, Res_pbest, X_pbest,
             Res_gbest, X_gbest, i_best, it, w, total_gbest, evals>>

\* the first part of the loop body over the concentration points, before the
\* loop over the molecules: part_000 calls srand(time(NULL)) there
PointPrologue(v) == IF v = "get_Residual_4" THEN <<"srand">> ELSE <<>>

InitSeed ==
    /\ engine = "update_States13"
    /\ state = 0
    /\ current_state = 0
    /\ randNum = 0
    /\ rates = RateTable(1, 1, 1)
    /\ conc = [Ca_cyt_conc |-> 1, Ca_sr_conc |-> 1, Pi_conc |-> 1,
               MgATP_conc |-> 1, MgADP_conc |-> 1]
    /\ dt = 1
    /\ op = "init"
    /\ pc = "main"
    /\ cal = 0
    /\ rr = 0
    /\ n = 0
    /\ output_count = 0
    /\ hist = ZeroHist
    /\ ss_bound_Ca = <<>>
    /\ boundSS_max_temp = 0
    /\ variant \in {"get_Residual", "get_Residual_4"}
    /\ norm_ss_bound = <<>>
    /\ residual = Zero
    /\ IdlePSO
    /\ IdleWin

\* srand(time(NULL)) in main
SeedMain ==
    /\ pc = "main"
    /\ rand_events' = Append(rand_events, "srand")
    /\ pc' = "init_particles"
    /\ op' = "srand"
    /\ UNCHANGED <<smVars, cal, rr, n, output_count, hist, ss_bound_Ca, boundSS_max_temp,
                   resVars, psoVars, tsteps, written, steps_read, gridVars>>

\* Step 1 of main, one particle: the draws of its position and velocity
DrawParticle ==
    /\ pc = "init_particles"
    /\ rand_events' = Append(rand_events, "rand")
    /\ ip' = NextParticle(ip, n_particles_PSO, 0)
    /\ pc' = NextPhase(ip, n_particles_PSO, pc, "call")
    /\ op' = "init_particle"
    /\ UNCHANGED <<smVars, cal, rr, n, output_count, hist, ss_bound_Ca, boundSS_max_temp,
                   resVars, psoRest, tsteps, written, steps_read, gridVars>>

\* residual_cost_func[i] = get_Residual(...): the call
CallEvaluator ==
    /\ pc = "call"
    /\ cal' = 0
    /\ pc' = "cal_loop"
    /\ op' = "call"
    /\ UNCHANGED <<smVars, rr, n, output_count, hist, ss_bound_Ca, boundSS_max_temp,
                   resVars, psoVars, winVars>>

\* for (cal = 0; cal < n_pCa; cal++) { ... for (rr = 0; ...
SeedPoint ==
    /\ pc = "cal_loop"
    /\ cal < n_pCa
    /\ rand_events' = rand_events \o PointPrologue(variant)
    /\ rr' = 0
    /\ n' = 0
    /\ pc' = "n_loop"
    /\ op' = "begin_point"
    /\ UNCHANGED <<smVars, cal, output_count, hist, ss_bound_Ca, boundSS_max_temp,
                   resVars, psoVars, tsteps, written, steps_read, gridVars>>

\* one timestep of one molecule: update_States draws randNum; after the last
\* timestep of the last molecule the point ends
DrawStep ==
    /\ pc = "n_loop"
    /\ rand_events' = Append(rand_events, "rand")
    /\ IF n + 1 < max_tsteps
       THEN n' = n + 1 /\ UNCHANGED <<rr, cal, pc>>
       ELSE /\ n' = 0
            /\ IF rr + 1 < n_SERCA_Molecules
               THEN rr' = rr + 1 /\ UNCHANGED <<cal, pc>>
               ELSE rr' = 0 /\ cal' = cal + 1 /\ pc' = "cal_loop"
    /\ op' = "update_States"
    /\ UNCHANGED <<smVars, output_count, hist, ss_bound_Ca, boundSS_max_temp,
                   resVars, psoVars, tsteps, written, steps_read, gridVars>>

\* the evaluator returns; main goes to the next particle or ends
ReturnToMain ==
    /\ pc = "cal_loop"
    /\ cal = n_pCa
    /\ ip' = NextParticle(ip, n_particles_PSO, 0)
    /\ pc' = NextPhase(ip, n_particles_PSO, "call", "done")
    /\ op' = "return"
    /\ UNCHANGED <<smVars, cal, rr, n, output_count, hist, ss_bound_Ca, boundSS_max_temp,
                   resVars, psoRest, winVars>>

NextSeed ==
    SeedMain \/ DrawParticle \/ CallEvaluator \/ SeedPoint \/ DrawStep \/ ReturnToMain

SpecSeed == InitSeed /\ [][NextSeed]_vars

\* the number of calls of srand so far
SeedCount == Cardinality({j \in 1..Len(rand_events) : rand_events[j] = "srand"})

\* C33: the random generator is seeded exactly once in a program run, before
\* the first draw: no call of the evaluator seeds it again, neither between
\* two concentration points nor between two particles.
C33_SeededExactlyOnce ==
    /\ SeedCount <= 1
    /\ rand_events # <<>> => rand_events[1] = "srand"
    /\ pc = "done" => SeedCount = 1


\* C34: when the simulation of a concentration point starts, every bin of
\* every histogram array is zero: neither the counts of the points before it
\* nor the first content of the arrays carry into the point.
C34_HistogramsZeroAtEachPoint ==
    op = "begin_point" => hist = ZeroHist


----------------------------------------------------------------------------
(* The global best of the serial optimizer *)

\* C35: in the serial optimizer the stored global-best position is the
\* position at which the stored global-best residual was evaluated.  Init
\* takes both from particle i_Res_gbest; afterwards they change only in the
\* update of the global best, together, and both come from one particle whose
\* residual of this iteration was evaluated at its present position.
C35_GbestPositionMatchesResidual ==
    [][main = "serial" =>
          /\ op' = "init_best" =>
                /\ X_gbest' = X[i_best]
                /\ Res_gbest' = residual_cost_func[i_best]
                /\ residual_cost_func[i_best] = evals[i_best][Len(evals[i_best])]
          /\ (pc \notin {"init_particles", "init_evaluate", "seed_gbest", "init_scan", "init_best"}
              /\ (Res_gbest' # Res_gbest \/ X_gbest' # X_gbest)) =>
                /\ op' = "update_gbest"
                /\ \E j \in Particles :
                      /\ Res_gbest' = residual_cost_func[j]
                      /\ X_gbest' = X[j]
                      /\ residual_cost_func[j] = evals[j][Len(evals[j])]
          /\ op' = "move" =>
                /\ X'[ip] = FAdd(X[ip], V'[ip])
                /\ residual_cost_func'[ip] = evals'[ip][Len(evals'[ip])]
                /\ X_gbest' = X_gbest /\ Res_gbest' = Res_gbest]_vars

\* an iteration of the serial optimizer has replaced the global best by the
\* residual and the position of particle 1, which differ from those of particle 0
C35_Witness ==
    /\ main = "serial"
    /\ op = "update_gbest"
    /\ Res_gbest = residual_cost_func[1]
    /\ FLt(residual_cost_func[1], residual_cost_func[0])
    /\ X_gbest = X[1]
    /\ X[1] # X[0]


\* C36: every write total_gbest[it] = Res_gbest of the serial optimizer uses
\* an index below max_iter, the length of the array, and the array holds one
\* entry for each iteration that has been executed.
C36_HistoryIndexInRange ==
    main = "serial" =>
        /\ \A g \in DOMAIN total_gbest : total_gbest[g] # Unset => g < max_iter
        /\ op = "update_gbest" => total_gbest[it] # Unset


\* C37: in the serial optimizer, after Init and after the personal-best
\* update of every iteration, Res_gbest is the minimum of the Res_pbest[i]
\* over the particles (it is one of them and it is at most every one that is
\* a number), and between the update of the global best and the update of
\* the personal bests Res_gbest exceeds no Res_pbest[i].
C37_GbestIsMinOfPbest ==
    main = "serial" =>
        /\ pc \in {"iter_head", "move", "update_gbest", "done"} =>
              /\ \A i \in Particles : Res_pbest[i] # NaN => FLeq(Res_gbest, Res_pbest[i])
              /\ \E i \in Particles : Res_gbest = Res_pbest[i]
        /\ pc = "update_pbest" =>
              \A i \in Particles : Res_pbest[i] # NaN => FLeq(Res_gbest, Res_pbest[i])


\* the steady-state fractions S0_SS + ... + S11_SS of the states 0..s, in
\* units of 1/(n_SERCA_Molecules * Window)
RECURSIVE FractionSumUpTo(_, _)
FractionSumUpTo(h, s) == IF s < 0 THEN 0 ELSE SteadyState(h, s) + FractionSumUpTo(h, s - 1)

\* the histograms hold what one run that started from all-zero arrays leaves:
\* n_SERCA_Molecules counts in every recorded bin and nothing elsewhere
FilledFromZero(h) ==
    \A b \in 0..(HistSize - 1) :
        BinTotal(h, b) = (IF b \in RecordedBins THEN n_SERCA_Molecules ELSE 0)

\* C38: when the histograms were all zero at the start, the steady-state
\* fractions of the first concentration point add up to exactly 1: the
\* window sum is divided by the number of terms that it adds up.
C38_FractionsSumToOne ==
    (op = "average" /\ cal = 1 /\ FilledFromZero(hist)) =>
        FractionSumUpTo(hist, 12) = n_SERCA_Molecules * Window

====
